---- MODULE Spec2Model ----
(***************************************************************************)
(* A model of the ambre transaction database (packages/ambre/ambre):       *)
(* the itemsets trie with insertion, removal and merge, the normalisation  *)
(* of transactions, the item codec and the set of common sense rules.      *)
(*                                                                         *)
(* Strings are sequences of code points, so that comparing, lower-casing,  *)
(* stripping and compressing them is computed and not assumed.  The model  *)
(* keeps to ASCII, where str.lower and str.casefold agree.                 *)
(***************************************************************************)
EXTENDS Integers, Sequences, FiniteSets, Bags, TLC

(***************************************************************************)
(* Bounds of the model.                                                    *)
(***************************************************************************)
\* the most items a caller passes in one transaction
MaxLen == 3
\* the most calls made on the two databases
MaxCalls == 2
\* the most calls made on the two databases when the transactions are clean
MaxCleanCalls == 3
\* the most calls made on the two databases while their insertion logs are kept
MaxLogged == 3
\* the most rules in one batch of common sense rules
MaxBatch == 2
\* the most calls made on the common sense rules of the two databases
MaxRuleCalls == 2
\* the most transactions inserted into a database whose rules are derived
MaxRuleQueryCalls == 4
\* the most common sense rules given to a database that is queried
MaxRules == 1
\* the most transactions inserted into a database that is asked for probabilities
MaxPredictCalls == 3
\* the most characters of an item that is compressed
MaxItemLen == 3
\* the most calls on two databases created with settings of their own
MaxGatedCalls == 2
\* the most transactions inserted into a database that is asked for its itemsets
MaxItemsetCalls == 3
\* the most characters of an item that is normalised
MaxRawLen == 4
\* the most items of a transaction that repeats items, and the most such transactions
\* inserted into a database that is asked for its rules
MaxRepeatLen == 4
MaxDescentCalls == 3
\* the most transactions inserted into a database before its trie is walked
MaxVisitCalls == 2
\* the most transactions inserted into a database before a node is looked up, and the
\* most items of the path looked up
MaxLookupCalls == 2
MaxPathLen == 3
\* the calls that change the trie in SpecFind
MaxFindCalls == 2
\* the longest transaction inserted in SpecFind
MaxFindLen == 2
\* the calls in SpecOrder
MaxOrderCalls == 4
\* the calls in SpecSeveral
MaxSeveralCalls == 3
\* the calls in SpecCommute and the longest transaction inserted there
MaxCommuteCalls == 2
MaxCommuteLen == 2

(***************************************************************************)
(* Python values.                                                          *)
(***************************************************************************)
\* None where an integer is expected (max_antecedents_length=None)
None == -1

\* the element of a set of one element: TheOnly({e(x) : x \in {v}}) is e(v) with v
\* worked out once
TheOnly(S) == CHOOSE x \in S : TRUE

\* list[start:] with a 0-based start
Slice(seq, start) == SubSeq(seq, start + 1, Len(seq))

\* the elements of a list
Range(seq) == {seq[k] : k \in DOMAIN seq}

\* all the orders in which a finite set can be iterated
RECURSIVE Orders(_)
Orders(S) ==
    IF S = {} THEN {<<>>}
    ELSE UNION {{<<x>> \o q : q \in Orders(S \ {x})} : x \in S}

\* str < str: lexicographic on code points
RECURSIVE StrLess(_, _)
StrLess(s, t) ==
    IF t = <<>> THEN FALSE
    ELSE IF s = <<>> THEN TRUE
    ELSE IF s[1] # t[1] THEN s[1] < t[1]
    ELSE StrLess(Tail(s), Tail(t))

\* list < list for lists of strings
RECURSIVE ListLess(_, _)
ListLess(p, q) ==
    IF q = <<>> THEN FALSE
    ELSE IF p = <<>> THEN TRUE
    ELSE IF p[1] # q[1] THEN StrLess(p[1], q[1])
    ELSE ListLess(Tail(p), Tail(q))

\* the characters str.strip() removes and \s matches
IsSpace(c) == c \in {9, 10, 11, 12, 13, 28, 29, 30, 31, 32}

\* chr.lower(), chr.casefold()
LowerChar(c) == IF c >= 65 /\ c <= 90 THEN c + 32 ELSE c

\* str.lower()
Lower(s) == [k \in DOMAIN s |-> LowerChar(s[k])]

\* str.casefold()
Casefold(s) == [k \in DOMAIN s |-> LowerChar(s[k])]

\* str.lstrip()
RECURSIVE LStrip(_)
LStrip(s) ==
    IF s # <<>> /\ IsSpace(s[1]) THEN LStrip(Tail(s)) ELSE s

\* str.rstrip()
RECURSIVE RStrip(_)
RStrip(s) ==
    IF s # <<>> /\ IsSpace(s[Len(s)]) THEN RStrip(SubSeq(s, 1, Len(s) - 1)) ELSE s

\* str.strip()
Strip(s) == RStrip(LStrip(s))

\* re.sub(r"\s+", " ", s): every run of whitespace becomes one space
RECURSIVE CollapseWhitespace(_)
CollapseWhitespace(s) ==
    IF s = <<>> THEN <<>>
    ELSE IF IsSpace(s[1])
         THEN <<32>> \o CollapseWhitespace(LStrip(s))
         ELSE <<s[1]>> \o CollapseWhitespace(Tail(s))

\* whether sub in s for a two-character sub
HasPair(s, c1, c2) == \E k \in 1..(Len(s) - 1) : s[k] = c1 /\ s[k + 1] = c2

\* key=str.casefold
CasefoldLess(a, b) == StrLess(Casefold(a), Casefold(b))

\* list.sort(key=str.casefold): stable, every element in turn is placed after the
\* elements whose key is not greater
RECURSIVE CasefoldInsert(_, _)
CasefoldInsert(sorted, x) ==
    IF sorted = <<>> THEN <<x>>
    ELSE IF CasefoldLess(x, sorted[1]) THEN <<x>> \o sorted
    ELSE <<sorted[1]>> \o CasefoldInsert(Tail(sorted), x)

RECURSIVE CasefoldSort(_)
CasefoldSort(seq) ==
    IF seq = <<>> THEN <<>>
    ELSE CasefoldInsert(CasefoldSort(SubSeq(seq, 1, Len(seq) - 1)), seq[Len(seq)])

\* sorted(set_of_characters)
RECURSIVE SortedChars(_)
SortedChars(S) ==
    IF S = {} THEN <<>>
    ELSE LET m == CHOOSE x \in S : \A y \in S : x <= y
         IN <<m>> \o SortedChars(S \ {m})

\* sorted(set_of_strings)
RECURSIVE SortedStrings(_)
SortedStrings(S) ==
    IF S = {} THEN <<>>
    ELSE LET m == CHOOSE x \in S : \A y \in S : x = y \/ StrLess(x, y)
         IN <<m>> \o SortedStrings(S \ {m})

(***************************************************************************)
(* helpers/strings.py: the item codec.                                     *)
(***************************************************************************)
\* item_alphabet=None
NoAlphabet == <<None>>

\* str.find(char): the 0-based index of the first occurrence, -1 when there is none
Find(alphabet, c) ==
    IF \E k \in DOMAIN alphabet : alphabet[k] = c
    THEN (CHOOSE k \in DOMAIN alphabet :
            alphabet[k] = c /\ \A j \in 1..(k - 1) : alphabet[j] # c) - 1
    ELSE -1

\* the digits of n in the given base, most significant first; none for 0
RECURSIVE ToBase(_, _)
ToBase(n, base) ==
    IF n = 0 THEN <<>> ELSE Append(ToBase(n \div base, base), n % base)

\* the loop of compress_string over the characters: the cumulated number, or -1
\* when a character is not in the alphabet (ValueError)
RECURSIVE CompressFold(_, _, _, _)
CompressFold(string, input_alphabet, cumulated_number, is_first_char) ==
    IF string = <<>> THEN cumulated_number
    ELSE LET position_in_input_alphabet == Find(input_alphabet, string[1])
             input_base == Len(input_alphabet)
             added == cumulated_number * input_base + position_in_input_alphabet
         IN IF position_in_input_alphabet >= 0
            THEN CompressFold(Tail(string), input_alphabet,
                              IF is_first_char /\ added = 0 THEN input_base ELSE added,
                              FALSE)
            ELSE -1

\* the alphabet as it is, without chr(255) before it
BareAlphabet(input_alphabet) == input_alphabet

\* input_alphabet = chr(255) + input_alphabet
ExtendedAlphabet(input_alphabet) == <<255>> \o input_alphabet

\* whether compress_string raises ValueError
CompressRaises(string, input_alphabet) ==
    /\ input_alphabet # NoAlphabet
    /\ \/ 255 \in Range(input_alphabet)
       \/ CompressFold(string, ExtendedAlphabet(input_alphabet), 0, TRUE) = -1

\* compress_string, where it does not raise
CompressString(string, input_alphabet) ==
    IF input_alphabet = NoAlphabet THEN string
    ELSE ToBase(CompressFold(string, ExtendedAlphabet(input_alphabet), 0, TRUE), 256)

\* the loop of decompress_string over the characters
RECURSIVE DecompressFold(_, _, _)
DecompressFold(compressed_string, cumulated_number, is_first_char) ==
    IF compressed_string = <<>> THEN cumulated_number
    ELSE LET added == cumulated_number * 256 + compressed_string[1]
         IN DecompressFold(Tail(compressed_string),
                           IF is_first_char /\ added = 0 THEN 256 ELSE added,
                           FALSE)

\* decompress_string
DecompressString(compressed_string, original_input_alphabet) ==
    IF original_input_alphabet = NoAlphabet THEN compressed_string
    ELSE LET alphabet == ExtendedAlphabet(original_input_alphabet)
             digits == ToBase(DecompressFold(compressed_string, 0, TRUE), Len(alphabet))
         IN [k \in DOMAIN digits |-> alphabet[digits[k] + 1]]

(***************************************************************************)
(* settings.py and prepostprocessing.py.                                   *)
(***************************************************************************)
\* Settings.__init__ with all its parameters
SettingsWith(consequents, normalize_whitespace, case_insensitive, max_antecedents_length, item_separator_for_string_outputs, column_value_separator, omit_column_names, item_alphabet) ==
    [consequents |-> consequents,
     normalize_whitespace |-> normalize_whitespace,
     case_insensitive |-> case_insensitive,
     max_antecedents_length |-> max_antecedents_length,
     item_separator_for_string_outputs |-> item_separator_for_string_outputs,
     column_value_separator |-> column_value_separator,
     omit_column_names |-> omit_column_names,
     item_alphabet |->
        IF case_insensitive /\ item_alphabet # NoAlphabet
        THEN SortedChars({LowerChar(c) : c \in Range(item_alphabet)})
        ELSE item_alphabet]

\* Settings.__init__ as Database.__init__ calls it when the caller leaves the separators
\* (" \cup " and "=") and omit_column_names (False) at their defaults
Settings(consequents, normalize_whitespace, case_insensitive, max_antecedents_length, item_alphabet) ==
    SettingsWith(consequents, normalize_whitespace, case_insensitive, max_antecedents_length,
                 <<32, 8746, 32>>, <<61>>, FALSE, item_alphabet)

\* an equality of settings that looks at the fields the trie is built with only
SettingsEqOfTrieFields(self, other) ==
    /\ self.consequents = other.consequents
    /\ self.normalize_whitespace = other.normalize_whitespace
    /\ self.case_insensitive = other.case_insensitive
    /\ self.max_antecedents_length = other.max_antecedents_length
    /\ self.item_alphabet = other.item_alphabet

\* Settings.__eq__
SettingsEq(self, other) ==
    /\ self.consequents = other.consequents
    /\ self.normalize_whitespace = other.normalize_whitespace
    /\ self.case_insensitive = other.case_insensitive
    /\ self.max_antecedents_length = other.max_antecedents_length
    /\ self.item_separator_for_string_outputs = other.item_separator_for_string_outputs
    /\ self.column_value_separator = other.column_value_separator
    /\ self.omit_column_names = other.omit_column_names
    /\ self.item_alphabet = other.item_alphabet

\* PrePostProcessor.normalize_uncompressed_itemset, one item of it
NormalizeItem(s, item) ==
    LET spaced == IF s.normalize_whitespace THEN Strip(CollapseWhitespace(item)) ELSE item
    IN IF s.case_insensitive THEN Lower(spaced) ELSE spaced

\* PrePostProcessor.normalize_uncompressed_itemset(itemset, sort_result=False): a set
NormalizeUncompressedItemset(s, itemset) == {NormalizeItem(s, item) : item \in itemset}

\* PrePostProcessor.normalized_consequents, as the set _normalized_consequents_set
NormalizedConsequents(s) == NormalizeUncompressedItemset(s, s.consequents)

\* PrePostProcessor.extract_consequents_antecedents_compressed_from_uncompressed with
\* sort_result=True, on the items in the order the itemset iterates them
ExtractConsequentsAntecedents(s, itemset) ==
    [consequents |->
        CasefoldSort(SelectSeq(itemset, LAMBDA item : item \in NormalizedConsequents(s))),
     antecedents |->
        CasefoldSort(SelectSeq(itemset, LAMBDA item : item \notin NormalizedConsequents(s)))]

\* a normalisation of one item that strips the item only where it has not replaced
\* its whitespace
InsertNormalizeUnstripped(s, item) ==
    LET spaced ==
            IF s.normalize_whitespace
            THEN IF HasPair(item, 32, 32) \/ 9 \in Range(item) \/ 10 \in Range(item)
                 THEN CollapseWhitespace(item)
                 ELSE Strip(item)
            ELSE item
    IN IF s.case_insensitive THEN Lower(spaced) ELSE spaced

\* Database.insert_transaction, the normalisation of one item
InsertNormalizeItem(s, item) ==
    LET stripped == Strip(item)
        spaced ==
            IF s.normalize_whitespace
            THEN IF HasPair(stripped, 32, 32) \/ 9 \in Range(stripped) \/ 10 \in Range(stripped)
                 THEN CollapseWhitespace(stripped)
                 ELSE stripped
            ELSE item
    IN IF s.case_insensitive THEN Lower(spaced) ELSE spaced

(***************************************************************************)
(* itemsets_trie.py.  A trie is a record: nodes maps the path of every     *)
(* node that hangs in the trie (the compressed items from the root, the    *)
(* root being the empty path) to its fields; children is the order in      *)
(* which the children dict iterates its keys.                              *)
(***************************************************************************)
root_node == <<>>

\* ItemsetNode(compressed_item, parent, trie, is_consequent, {}, 0)
ItemsetNode(is_consequent) ==
    [occurrences |-> 0, is_consequent |-> is_consequent, children |-> <<>>]

\* ItemsetsTrie.__init__: the root is a node whose is_consequent is None
ItemsetsTrie ==
    [nodes |-> (root_node :> ItemsetNode(None)),
     number_transactions |-> 0,
     number_nodes |-> 1]

\* node.parent_node
ParentNode(node) == SubSeq(node, 1, Len(node) - 1)

\* whether node is on the path to other (or is it)
IsPrefix(node, other) ==
    Len(node) <= Len(other) /\ SubSeq(other, 1, Len(node)) = node

\* the sort key of a child, (not is_consequent, decompressed item), as a record
SortKey(is_consequent, compressed_item, item_alphabet) ==
    [antecedent |-> ~is_consequent,
     decompressed |-> DecompressString(compressed_item, item_alphabet),
     compressed |-> compressed_item]

\* tuple < tuple on (bool, str)
SortKeyLess(a, b) ==
    IF a.antecedent # b.antecedent THEN b.antecedent
    ELSE StrLess(a.decompressed, b.decompressed)

\* items_with_keys.sort(key=lambda x: x[0]): stable
RECURSIVE SortKeyInsert(_, _)
SortKeyInsert(sorted, x) ==
    IF sorted = <<>> THEN <<x>>
    ELSE IF SortKeyLess(x, sorted[1]) THEN <<x>> \o sorted
    ELSE <<sorted[1]>> \o SortKeyInsert(Tail(sorted), x)

RECURSIVE SortKeySort(_)
SortKeySort(seq) ==
    IF seq = <<>> THEN <<>>
    ELSE SortKeyInsert(SortKeySort(SubSeq(seq, 1, Len(seq) - 1)), seq[Len(seq)])

\* children that keep the order of creation: the new child is put last
ChildrenInCreationOrder(T, node, compressed_item, is_consequent, item_alphabet) ==
    Append(T.nodes[node].children, compressed_item)

\* ItemsetNode.get_or_create_child, the new order of self.children when a child is
\* created: the three branches of the code
ChildrenWithNew(T, node, compressed_item, is_consequent, item_alphabet) ==
    LET children == T.nodes[node].children
        existing(k) == SortKey(T.nodes[Append(node, children[k])].is_consequent,
                               children[k], item_alphabet)
        new_sort_key == SortKey(is_consequent, compressed_item, item_alphabet)
        items_with_keys == [k \in DOMAIN children |-> existing(k)] \o <<new_sort_key>>
        sorted == SortKeySort(items_with_keys)
    IN IF children = <<>> THEN <<compressed_item>>
       ELSE IF Len(children) = 1
            THEN IF SortKeyLess(new_sort_key, existing(1))
                 THEN <<compressed_item, children[1]>>
                 ELSE <<children[1], compressed_item>>
            ELSE [k \in DOMAIN sorted |-> sorted[k].compressed]

\* ItemsetNode.get_or_create_child, for an item compress_string accepts: the trie
\* after the call and the child's path
GetOrCreateChild(T, node, item, is_consequent, item_is_compressed, item_alphabet) ==
    LET compressed_item ==
            IF item_is_compressed THEN item ELSE CompressString(item, item_alphabet)
        child_node == Append(node, compressed_item)
    IN IF compressed_item \in Range(T.nodes[node].children)
       THEN [trie |-> T, child |-> child_node]
       ELSE [trie |->
                [T EXCEPT
                    !.nodes = (child_node :> ItemsetNode(is_consequent)) @@
                              [@ EXCEPT ![node].children =
                                  ChildrenWithNew(T, node, compressed_item, is_consequent,
                                                  item_alphabet)],
                    !.number_nodes = @ + 1],
             child |-> child_node]

\* a lookup that skips an unknown item whenever skip_unknown_items is set
RECURSIVE GetNodeBelowSkipFirst(_, _, _, _, _)
GetNodeBelowSkipFirst(T, node, compressed_itemset, skip_unknown_items, none_if_not_exists) ==
    IF compressed_itemset = <<>> THEN [result |-> "node", node |-> node]
    ELSE IF Head(compressed_itemset) \in Range(T.nodes[node].children)
         THEN GetNodeBelowSkipFirst(T, Append(node, Head(compressed_itemset)),
                                    Tail(compressed_itemset), skip_unknown_items,
                                    none_if_not_exists)
         ELSE IF skip_unknown_items
              THEN GetNodeBelowSkipFirst(T, node, Tail(compressed_itemset),
                                         skip_unknown_items, none_if_not_exists)
         ELSE IF none_if_not_exists THEN [result |-> "None", node |-> root_node]
         ELSE [result |-> "UnknownItemset", node |-> root_node]

\* ItemsetsTrie.get_node_from_compressed below the given node: the node found
\* ("node"), None, or the ValueError raised
RECURSIVE GetNodeBelow(_, _, _, _, _)
GetNodeBelow(T, node, compressed_itemset, skip_unknown_items, none_if_not_exists) ==
    IF compressed_itemset = <<>> THEN [result |-> "node", node |-> node]
    ELSE IF Head(compressed_itemset) \in Range(T.nodes[node].children)
         THEN GetNodeBelow(T, Append(node, Head(compressed_itemset)),
                           Tail(compressed_itemset), skip_unknown_items, none_if_not_exists)
         ELSE IF none_if_not_exists THEN [result |-> "None", node |-> root_node]
         ELSE IF ~skip_unknown_items THEN [result |-> "UnknownItemset", node |-> root_node]
         ELSE GetNodeBelow(T, node, Tail(compressed_itemset),
                           skip_unknown_items, none_if_not_exists)

\* ItemsetsTrie.get_node_from_compressed
GetNodeFromCompressed(T, compressed_itemset, skip_unknown_items, none_if_not_exists) ==
    IF compressed_itemset = <<>> THEN [result |-> "EmptyItemset", node |-> root_node]
    ELSE GetNodeBelow(T, root_node, compressed_itemset, skip_unknown_items,
                      none_if_not_exists)

\* a stack that takes every child, whatever max_antecedents_length is: with it
\* insertion counts every subset of the antecedents
WithoutMaxAntecedentsLength(s, new_antecedents_count) == TRUE

\* the condition under which _create_or_update_child_node puts the child on the stack
WithinMaxAntecedentsLength(s, new_antecedents_count) ==
    \/ s.max_antecedents_length \in {None, 0}
    \/ new_antecedents_count < s.max_antecedents_length

\* ItemsetsTrie.insert_consequents_antecedents_compressed, _create_or_update_child_node
\* mapped over itemset_plus_meta[start_index:] from position index on; st holds the
\* trie, the stack and the error raised, if any
RECURSIVE CreateOrUpdateChildNodes(_, _, _, _, _, _, _)
CreateOrUpdateChildNodes(st, s, itemset_plus_meta, node, start_index, count, index) ==
    IF st.error # "" \/ start_index + index >= Len(itemset_plus_meta) THEN st
    ELSE LET item_plus_meta == itemset_plus_meta[start_index + index + 1]
         IN IF CompressRaises(item_plus_meta.item, s.item_alphabet)
            THEN [st EXCEPT !.error = "InvalidItemChar"]
            ELSE
              LET got == GetOrCreateChild(st.trie, node, item_plus_meta.item,
                                          item_plus_meta.is_consequent, FALSE,
                                          s.item_alphabet)
                  child_node == got.child
                  updated == [got.trie EXCEPT !.nodes[child_node].occurrences = @ + 1]
                  new_antecedents_count ==
                      count +
                      (IF updated.nodes[child_node].is_consequent = FALSE THEN 1 ELSE 0)
                  pushed ==
                      IF WithinMaxAntecedentsLength(s, new_antecedents_count)
                      THEN Append(st.stack,
                                  <<child_node, start_index + index + 1, new_antecedents_count>>)
                      ELSE st.stack
              IN CreateOrUpdateChildNodes(
                    [trie |-> updated, stack |-> pushed, error |-> ""], s,
                    itemset_plus_meta, node, start_index, count, index + 1)

\* the while loop over the stack (a deque read with popleft)
RECURSIVE InsertWhileStack(_, _, _)
InsertWhileStack(st, s, itemset_plus_meta) ==
    IF st.error # "" \/ st.stack = <<>> THEN st
    ELSE LET top == Head(st.stack)
         IN InsertWhileStack(
                CreateOrUpdateChildNodes([st EXCEPT !.stack = Tail(@)], s, itemset_plus_meta,
                                         top[1], top[2], top[3], 0),
                s, itemset_plus_meta)

\* ItemsetsTrie.insert_consequents_antecedents_compressed: the trie after the call
\* and the error it raised ("" for none)
InsertConsequentsAntecedentsCompressed(T, s, consequents, antecedents) ==
    LET itemset_plus_meta ==
            [k \in DOMAIN consequents |-> [item |-> consequents[k], is_consequent |-> TRUE]]
            \o [k \in DOMAIN antecedents |-> [item |-> antecedents[k], is_consequent |-> FALSE]]
        st == InsertWhileStack(
                [trie |-> T, stack |-> <<<<root_node, 0, 0>>>>, error |-> ""],
                s, itemset_plus_meta)
    IN IF st.error # "" THEN [trie |-> st.trie, error |-> st.error]
       ELSE [trie |-> [st.trie EXCEPT !.number_transactions = @ + 1], error |-> ""]

\* ItemsetsTrie.has_consequents_antecedents_compressed, for a non-empty itemset
HasConsequentsAntecedentsCompressed(T, itemset) ==
    GetNodeFromCompressed(T, itemset, FALSE, TRUE).result = "node"

\* ItemsetNode.antecedents_compressed: the items of the node's path whose nodes are
\* no consequents
AntecedentsCompressed(T, node) ==
    LET positions == {k \in DOMAIN node : ~T.nodes[SubSeq(node, 1, k)].is_consequent}
        RECURSIVE Collect(_)
        Collect(k) ==
            IF k > Len(node) THEN <<>>
            ELSE (IF k \in positions THEN <<node[k]>> ELSE <<>>) \o Collect(k + 1)
    IN Collect(1)

\* del parent.children[compressed_item]: the node leaves the trie with all that
\* hangs below it
DeleteChild(T, node) ==
    LET parent == ParentNode(node)
        left == {other \in DOMAIN T.nodes : ~IsPrefix(node, other)}
    IN [T EXCEPT
          !.nodes = [other \in left |->
                       IF other = parent
                       THEN [T.nodes[parent] EXCEPT
                               !.children = SelectSeq(@, LAMBDA c : c # node[Len(node)])]
                       ELSE T.nodes[other]]]

\* the walk from a leaf up to the root in remove_consequents_antecedents_compressed
RECURSIVE RemoveWalkUp(_, _)
RemoveWalkUp(T, current_node) ==
    IF current_node = root_node THEN T
    ELSE LET lowered == [T EXCEPT !.nodes[current_node].occurrences = @ - 1]
             after ==
                IF lowered.nodes[current_node].occurrences = 0
                THEN [DeleteChild(lowered, current_node) EXCEPT !.number_nodes = @ - 1]
                ELSE lowered
         IN RemoveWalkUp(after, ParentNode(current_node))

\* the loop over start_index in remove_consequents_antecedents_compressed
RECURSIVE RemoveFromStartIndex(_, _, _)
RemoveFromStartIndex(T, transaction, start_index) ==
    IF start_index >= Len(transaction) THEN [trie |-> T, error |-> ""]
    ELSE LET leaf == GetNodeFromCompressed(T, Slice(transaction, start_index), FALSE, FALSE)
         IN IF leaf.result # "node" THEN [trie |-> T, error |-> leaf.result]
            ELSE RemoveFromStartIndex(RemoveWalkUp(T, leaf.node), transaction, start_index + 1)

\* ItemsetsTrie.remove_consequents_antecedents_compressed: the trie after the call
\* and how it ended: "" (removed), "silent" (returned early) or the error raised
RemoveConsequentsAntecedentsCompressed(T, consequents, antecedents, silent) ==
    LET transaction_normalized_compressed == consequents \o antecedents
        removed == RemoveFromStartIndex(T, transaction_normalized_compressed, 0)
    IN IF T.number_transactions = 0 THEN [trie |-> T, error |-> "EmptyDatabase"]
       ELSE IF transaction_normalized_compressed = <<>>
            THEN [trie |-> T, error |-> "EmptyItemset"]
       ELSE IF ~HasConsequentsAntecedentsCompressed(T, transaction_normalized_compressed)
            THEN [trie |-> T, error |-> IF silent THEN "silent" ELSE "TransactionNotFound"]
       ELSE IF removed.error # "" THEN removed
       ELSE [trie |-> [removed.trie EXCEPT !.number_transactions = @ - 1], error |-> ""]

\* a merge that writes the occurrences of the source over those of the target
SourceOccurrences(target_occurrences, source_occurrences) == source_occurrences

\* target_child.occurrences += source_child.occurrences
MergedOccurrences(target_occurrences, source_occurrences) ==
    target_occurrences + source_occurrences

\* ItemsetsTrie.merge, the loop over the children of one source node from position
\* k on; st holds the target trie and the stack
RECURSIVE MergeChildren(_, _, _, _, _, _)
MergeChildren(st, source, source_node, target_node, k, item_alphabet) ==
    IF k > Len(source.nodes[source_node].children) THEN st
    ELSE LET source_child == Append(source_node, source.nodes[source_node].children[k])
             got == GetOrCreateChild(st.trie, target_node, source_child[Len(source_child)],
                                     source.nodes[source_child].is_consequent, TRUE,
                                     item_alphabet)
             added == [got.trie EXCEPT !.nodes[got.child].occurrences =
                          MergedOccurrences(@, source.nodes[source_child].occurrences)]
         IN MergeChildren([trie |-> added,
                           stack |-> Append(st.stack, <<source_child, got.child>>)],
                          source, source_node, target_node, k + 1, item_alphabet)

\* the while loop over the stack (a deque read with pop)
RECURSIVE MergeWhileStack(_, _, _)
MergeWhileStack(st, source, item_alphabet) ==
    IF st.stack = <<>> THEN st
    ELSE LET top == st.stack[Len(st.stack)]
         IN MergeWhileStack(
                MergeChildren([st EXCEPT !.stack = SubSeq(@, 1, Len(@) - 1)], source,
                              top[1], top[2], 1, item_alphabet),
                source, item_alphabet)

\* ItemsetsTrie.merge: the target trie after the source is merged into it
TrieMerge(target, source, item_alphabet) ==
    MergeWhileStack([trie |-> target, stack |-> <<<<root_node, root_node>>>>], source,
                    item_alphabet).trie

(***************************************************************************)
(* common_sense_rule.py and the rule set of database.py.  A confidence is  *)
(* a number of hundredths.                                                 *)
(***************************************************************************)
\* PrePostProcessor.normalize_uncompressed_itemset(itemset, sort_result=True) for one
\* order in which the normalised set iterates: sort_and_move_consequents_first
SortAndMoveConsequentsFirst(s, order) ==
    ExtractConsequentsAntecedents(s, order).consequents
    \o ExtractConsequentsAntecedents(s, order).antecedents

\* the lists normalize_uncompressed_itemset(itemset, sort_result=True) can return:
\* the set iterates in an order of its own, which decides between items of one key
NormalizedSorted(s, itemset) ==
    {SortAndMoveConsequentsFirst(s, order) :
        order \in Orders(NormalizeUncompressedItemset(s, itemset))}

\* PrePostProcessor.compress_itemset
CompressItemset(s, items) ==
    [k \in DOMAIN items |-> CompressString(items[k], s.item_alphabet)]

\* CommonSenseRule.__init__ from the two normalised lists
CommonSenseRule(s, antecedents_normalized, consequents_normalized, confidence) ==
    [antecedents_normalized |-> antecedents_normalized,
     consequents_normalized |-> consequents_normalized,
     antecedents_compressed |-> CompressItemset(s, antecedents_normalized),
     consequents_compressed |-> CompressItemset(s, consequents_normalized),
     confidence |-> confidence]

\* CommonSenseRule.__eq__
RuleEq(a, b) ==
    /\ a.antecedents_normalized = b.antecedents_normalized
    /\ a.consequents_normalized = b.consequents_normalized
    /\ a.confidence = b.confidence

\* CommonSenseRule.__lt__: tuple < tuple on (antecedents, consequents, confidence)
RuleLess(a, b) ==
    IF a.antecedents_normalized # b.antecedents_normalized
    THEN ListLess(a.antecedents_normalized, b.antecedents_normalized)
    ELSE IF a.consequents_normalized # b.consequents_normalized
         THEN ListLess(a.consequents_normalized, b.consequents_normalized)
         ELSE a.confidence < b.confidence

\* sorted(list) of rules: stable
RECURSIVE RuleInsert(_, _)
RuleInsert(sorted, x) ==
    IF sorted = <<>> THEN <<x>>
    ELSE IF RuleLess(x, sorted[1]) THEN <<x>> \o sorted
    ELSE <<sorted[1]>> \o RuleInsert(Tail(sorted), x)

RECURSIVE RuleSort(_)
RuleSort(seq) ==
    IF seq = <<>> THEN <<>>
    ELSE RuleInsert(RuleSort(SubSeq(seq, 1, Len(seq) - 1)), seq[Len(seq)])

\* list(set(rules)): the rules that differ by __eq__, in some order (the sort that
\* follows does not depend on it, the rules of a set being strictly ordered)
RECURSIVE ListOfSet(_)
ListOfSet(S) ==
    IF S = {} THEN <<>>
    ELSE LET r == CHOOSE x \in S : TRUE
         IN <<r>> \o ListOfSet({o \in S : ~RuleEq(o, r)})

\* the key of itertools.groupby in insert_common_sense_rules
GroupKey(rule) == <<rule.antecedents_compressed, rule.consequents_compressed>>

\* the first rule of every group in place of the last: the lowest confidence of a key
FirstOfGroups(rules) ==
    LET first == {k \in DOMAIN rules :
                     k = 1 \/ GroupKey(rules[k - 1]) # GroupKey(rules[k])}
        RECURSIVE Pick(_)
        Pick(k) ==
            IF k > Len(rules) THEN <<>>
            ELSE (IF k \in first THEN <<rules[k]>> ELSE <<>>) \o Pick(k + 1)
    IN Pick(1)

\* list(group)[-1] for every group that itertools.groupby forms of consecutive rules
LastOfGroups(rules) ==
    LET last == {k \in DOMAIN rules :
                    k = Len(rules) \/ GroupKey(rules[k + 1]) # GroupKey(rules[k])}
        RECURSIVE Pick(_)
        Pick(k) ==
            IF k > Len(rules) THEN <<>>
            ELSE (IF k \in last THEN <<rules[k]>> ELSE <<>>) \o Pick(k + 1)
    IN Pick(1)

\* whether a rule earlier in the sorted list makes the rule at index redundant
MadeRedundant(rules, index) ==
    \E k \in 1..(index - 1) :
        /\ rules[k].confidence = rules[index].confidence
        /\ rules[k].consequents_compressed = rules[index].consequents_compressed
        /\ Range(rules[k].antecedents_compressed)
              \subseteq Range(rules[index].antecedents_compressed)

\* the last loop of insert_common_sense_rules
WithoutRedundant(rules) ==
    LET RECURSIVE Keep(_)
        Keep(index) ==
            IF index > Len(rules) THEN <<>>
            ELSE (IF MadeRedundant(rules, index) THEN <<>> ELSE <<rules[index]>>)
                 \o Keep(index + 1)
    IN Keep(1)

\* Database.insert_common_sense_rules: the new self.common_sense_rules
InsertCommonSenseRulesList(common_sense_rules, common_sense_rules_to_insert) ==
    LET sorted == RuleSort(ListOfSet(Range(common_sense_rules \o common_sense_rules_to_insert)))
        highest == RuleSort(LastOfGroups(sorted))
    IN WithoutRedundant(highest)

(***************************************************************************)
(* database.py: the operations of Database on a trie and a rule list.      *)
(***************************************************************************)
\* Database.insert_transaction up to the call of the trie: the two sorted lists
InsertTransactionLists(s, transaction) ==
    LET normalized == [k \in DOMAIN transaction |-> InsertNormalizeItem(s, transaction[k])]
    IN [consequents |->
            CasefoldSort(SelectSeq(normalized, LAMBDA item : item \in NormalizedConsequents(s))),
        antecedents |->
            CasefoldSort(SelectSeq(normalized, LAMBDA item : item \notin NormalizedConsequents(s)))]

\* Database.insert_transaction: the trie after the call and the error raised
DatabaseInsertTransaction(T, s, transaction) ==
    LET lists == InsertTransactionLists(s, transaction)
    IN InsertConsequentsAntecedentsCompressed(T, s, lists.consequents, lists.antecedents)

\* the lists Database.remove_transaction and Database.has_itemset can pass to the
\* trie: normalize_uncompressed_itemset(transaction, sort_result=False) is a set, and
\* extract_..._from_uncompressed sorts it as it iterates
RemoveTransactionLists(s, transaction) ==
    {ExtractConsequentsAntecedents(s, order) :
        order \in Orders(NormalizeUncompressedItemset(s, Range(transaction)))}

\* Database.merge_database_pair, the choice of the target: both branches of the
\* comparison of number_nodes name database1
MergeTarget(T1, T2) ==
    IF T1.number_nodes >= T2.number_nodes THEN 1 ELSE 1

(***************************************************************************)
(* The numbers of a node.  Python divides floats; the model keeps the      *)
(* quotients as fractions of integers, which the floats of the counts of   *)
(* the model compare like.                                                 *)
(***************************************************************************)
\* num / den
Ratio(num, den) == [num |-> num, den |-> den]

\* a / b for two quotients
RatioDiv(a, b) == Ratio(a.num * b.den, a.den * b.num)

\* a * b for two quotients
RatioMul(a, b) == Ratio(a.num * b.num, a.den * b.den)

\* a <= b for two quotients of positive denominators
RatioLeq(a, b) == a.num * b.den <= b.num * a.den

\* a == b
RatioEq(a, b) == a.num * b.den = b.num * a.den

\* abs(a - b) <= tolerance
RatioWithin(a, b, tolerance) ==
    LET difference == a.num * b.den - b.num * a.den
        absolute == IF difference < 0 THEN 0 - difference ELSE difference
    IN absolute * tolerance.den <= tolerance.num * a.den * b.den

\* the confidence of a common sense rule, given in hundredths
RuleConfidence(rule) == Ratio(rule.confidence, 100)

\* ItemsetNode.support; "ZeroDivisionError" when the trie holds no transaction
Support(T, node) ==
    IF T.number_transactions = 0 THEN [error |-> "ZeroDivisionError"]
    ELSE [error |-> "", value |-> Ratio(T.nodes[node].occurrences, T.number_transactions)]

\* ItemsetNode.consequents_compressed: the items of the node's path whose nodes are
\* consequents
ConsequentsCompressed(T, node) ==
    LET RECURSIVE Collect(_)
        Collect(k) ==
            IF k > Len(node) THEN <<>>
            ELSE (IF T.nodes[SubSeq(node, 1, k)].is_consequent = TRUE
                  THEN <<node[k]>> ELSE <<>>) \o Collect(k + 1)
    IN Collect(1)

\* ItemsetNode.confidence: the quotient, or the error raised
Confidence(T, node) ==
    LET antecedents_compressed == AntecedentsCompressed(T, node)
        found == GetNodeFromCompressed(T, antecedents_compressed, FALSE, FALSE)
    IN IF antecedents_compressed = <<>> THEN [error |-> "", value |-> Ratio(1, 1)]
       ELSE IF found.result # "node" THEN [error |-> found.result]
       ELSE IF Support(T, node).error # "" THEN Support(T, node)
       ELSE IF T.nodes[found.node].occurrences = 0 THEN [error |-> "ZeroDivisionError"]
       ELSE [error |-> "",
             value |-> RatioDiv(Support(T, node).value, Support(T, found.node).value)]

\* ItemsetNode.lift: the quotient, or the error raised
Lift(T, node) ==
    LET antecedents_compressed == AntecedentsCompressed(T, node)
        consequents_compressed == ConsequentsCompressed(T, node)
        by_antecedents == GetNodeFromCompressed(T, antecedents_compressed, FALSE, FALSE)
        by_consequents == GetNodeFromCompressed(T, consequents_compressed, FALSE, FALSE)
    IN IF antecedents_compressed = <<>> \/ consequents_compressed = <<>>
       THEN [error |-> "", value |-> Ratio(1, 1)]
       ELSE IF Support(T, node).error # "" THEN Support(T, node)
       ELSE IF by_antecedents.result # "node" THEN [error |-> by_antecedents.result]
       ELSE IF by_consequents.result # "node" THEN [error |-> by_consequents.result]
       ELSE IF T.nodes[by_antecedents.node].occurrences = 0
               \/ T.nodes[by_consequents.node].occurrences = 0
            THEN [error |-> "ZeroDivisionError"]
       ELSE [error |-> "",
             value |-> RatioDiv(Support(T, node).value,
                                RatioMul(Support(T, by_antecedents.node).value,
                                         Support(T, by_consequents.node).value))]

\* ItemsetNode.itemset_items_uncompressed_sorted, PrePostProcessor.decompress_itemset
DecompressItemset(items, item_alphabet) ==
    [k \in DOMAIN items |-> DecompressString(items[k], item_alphabet)]

(***************************************************************************)
(* The walks over the trie.                                                *)
(***************************************************************************)
\* what a visitor does at a node: whether it collects the node and whether it
\* returns "skip_children".  "all" is a visitor that returns nothing,
\* "consequent_nodes" the visitor of get_all_consequent_nodes_depth_first,
\* "first_antecedents" that of get_first_antecedent_after_consequents_nodes
Collects(T, node, visitor) ==
    CASE visitor = "all" -> TRUE
      [] visitor = "consequent_nodes" -> T.nodes[node].is_consequent = TRUE
      [] visitor = "first_antecedents" -> T.nodes[node].is_consequent # TRUE

SkipsChildren(T, node, visitor) ==
    CASE visitor = "all" -> FALSE
      [] visitor = "consequent_nodes" -> T.nodes[node].is_consequent # TRUE
      [] visitor = "first_antecedents" -> T.nodes[node].is_consequent # TRUE

\* ItemsetsTrie.visit_itemset_nodes_depth_first from the k-th child of parent on: the
\* nodes collected, and whether the walk has returned (it returns when
\* only_with_consequents is set and it comes to a child of the root that is no
\* consequent)
RECURSIVE VisitChildren(_, _, _, _, _)
VisitChildren(T, parent, k, visitor, only_with_consequents) ==
    IF k > Len(T.nodes[parent].children) THEN [nodes |-> <<>>, returned |-> FALSE]
    ELSE LET next_node == Append(parent, T.nodes[parent].children[k])
             below == IF SkipsChildren(T, next_node, visitor)
                      THEN [nodes |-> <<>>, returned |-> FALSE]
                      ELSE VisitChildren(T, next_node, 1, visitor, only_with_consequents)
             here == IF Collects(T, next_node, visitor) THEN <<next_node>> ELSE <<>>
             right == VisitChildren(T, parent, k + 1, visitor, only_with_consequents)
         IN IF only_with_consequents /\ parent = root_node
               /\ T.nodes[next_node].is_consequent # TRUE
            THEN [nodes |-> <<>>, returned |-> TRUE]
            ELSE IF below.returned
                 THEN [nodes |-> here \o below.nodes, returned |-> TRUE]
                 ELSE [nodes |-> here \o below.nodes \o right.nodes,
                       returned |-> right.returned]

\* ItemsetsTrie.visit_itemset_nodes_depth_first: the nodes a visitor collects
VisitItemsetNodesDepthFirst(T, visitor, only_with_consequents) ==
    VisitChildren(T, root_node, 1, visitor, only_with_consequents).nodes

\* ItemsetsTrie.get_all_consequent_nodes_depth_first
GetAllConsequentNodesDepthFirst(T) ==
    VisitItemsetNodesDepthFirst(T, "consequent_nodes", TRUE)

\* ItemsetsTrie.get_first_antecedent_after_consequents_nodes
GetFirstAntecedentAfterConsequentsNodes(T) ==
    VisitItemsetNodesDepthFirst(T, "first_antecedents", TRUE)

(***************************************************************************)
(* The walk over the trie, one pass of its loop at a time.                 *)
(***************************************************************************)
\* a next_sibling that finds no sibling
NoNextSibling(T, node) == <<>>

\* ItemsetNode.first_child: the list of the node if there is one, the empty list for
\* None
FirstChild(T, node) ==
    IF T.nodes[node].children = <<>> THEN <<>>
    ELSE <<Append(node, T.nodes[node].children[1])>>

\* ItemsetNode.next_sibling: the child of the parent that its children dict iterates
\* after the item of the node; None for the root and for a last child
NextSibling(T, node) ==
    IF node = root_node THEN <<>>
    ELSE LET siblings == T.nodes[ParentNode(node)].children
             at == CHOOSE k \in DOMAIN siblings : siblings[k] = node[Len(node)]
         IN IF at = Len(siblings) THEN <<>>
            ELSE <<Append(ParentNode(node), siblings[at + 1])>>

\* what the visitor function returns for a node: "all" always continues, "skip_a" does
\* not want the children of a node of the item "a", "stop_b" stops the walk at a node
\* of the item "b"
VisitorReturns(T, node, visitor) ==
    CASE visitor = "all" -> "next_node"
      [] visitor = "skip_a" ->
            IF node[Len(node)] = <<97>> THEN "skip_children" ELSE "next_node"
      [] visitor = "stop_b" ->
            IF node[Len(node)] = <<98>> THEN "stop" ELSE "next_node"

\* "walk up (until there is a parent that has a sibling) and right": the node the walk
\* goes on with, or that it returns at the root
RECURSIVE WalkUpAndRight(_, _)
WalkUpAndRight(T, node) ==
    IF NextSibling(T, node) # <<>>
    THEN [returned |-> FALSE, next_node |-> NextSibling(T, node)[1]]
    ELSE IF node = root_node THEN [returned |-> TRUE, next_node |-> node]
    ELSE WalkUpAndRight(T, ParentNode(node))

\* one pass of the "while True" of visit_itemset_nodes_depth_first: walk holds
\* next_node, the nodes the visitor was called with, and whether the walk has returned
VisitLoopBody(T, walk) ==
    LET next_node == walk.next_node
        calls_visitor == next_node # root_node
        next_action == IF calls_visitor THEN VisitorReturns(T, next_node, walk.visitor)
                       ELSE "next_node"
        called == IF calls_visitor THEN Append(walk.visited, next_node) ELSE walk.visited
        up == WalkUpAndRight(T, next_node)
    IN IF /\ walk.only_with_consequents
          /\ next_node # root_node
          /\ ParentNode(next_node) = root_node
          /\ T.nodes[next_node].is_consequent # TRUE
       THEN [walk EXCEPT !.returned = TRUE]
       ELSE IF next_action = "stop"
            THEN [walk EXCEPT !.visited = called, !.returned = TRUE]
       ELSE IF FirstChild(T, next_node) # <<>> /\ next_action # "skip_children"
            THEN [walk EXCEPT !.visited = called,
                              !.next_node = FirstChild(T, next_node)[1]]
       ELSE [walk EXCEPT !.visited = called, !.next_node = up.next_node,
                         !.returned = up.returned]

(***************************************************************************)
(* database.py: derive_frequent_itemsets_columns_dict.                     *)
(***************************************************************************)
\* the filters of an itemset that look at its occurrences and its length only
PassesWithoutSupport(params, occurrences, itemset_length, support) ==
    /\ ~(occurrences < params.min_occurrences
         \/ (params.max_occurrences # None /\ occurrences > params.max_occurrences))
    /\ ~(itemset_length < params.min_itemset_length
         \/ (params.max_itemset_length # None /\ itemset_length > params.max_itemset_length))

\* _collect_frequent_itemset_data: whether it comes to append a row, for a node with
\* these occurrences, this length and this support
PassesItemsetFilters(params, occurrences, itemset_length, support) ==
    /\ ~(occurrences < params.min_occurrences
         \/ (params.max_occurrences # None /\ occurrences > params.max_occurrences))
    /\ ~(itemset_length < params.min_itemset_length
         \/ (params.max_itemset_length # None /\ itemset_length > params.max_itemset_length))
    /\ RatioLeq(params.min_support, support)
    /\ RatioLeq(support, params.max_support)

\* Database.derive_frequent_itemsets_columns_dict with omit_column_names_in_output=False:
\* the rows of the four columns, in the order of the walk.  The division by
\* number_transactions raises ZeroDivisionError when the trie holds nodes and no
\* transaction
DeriveFrequentItemsetsColumnsDict(T, s, params) ==
    LET visited == VisitItemsetNodesDepthFirst(T, "all", params.filter_to_consequent_itemsets_only)
        RECURSIVE Rows(_)
        Rows(k) ==
            IF k > Len(visited) THEN <<>>
            ELSE LET current_node == visited[k]
                     occurrences == T.nodes[current_node].occurrences
                     itemset_length == Len(current_node)
                     support == Ratio(occurrences, T.number_transactions)
                 IN (IF PassesItemsetFilters(params, occurrences, itemset_length, support)
                     THEN <<[itemset |-> DecompressItemset(current_node, s.item_alphabet),
                             occurrences |-> occurrences,
                             support |-> support,
                             itemset_length |-> itemset_length]>>
                     ELSE <<>>) \o Rows(k + 1)
    IN IF T.number_transactions = 0 /\ visited # <<>>
       THEN [error |-> "ZeroDivisionError", rows |-> <<>>]
       ELSE [error |-> "", rows |-> Rows(1)]

(***************************************************************************)
(* database.py: derive_rules_columns_dict.                                 *)
(***************************************************************************)
\* None where a quotient is expected (max_lift=None)
NoRatio == Ratio(None, 1)

\* the compound condition of the numeric filters
PassesRuleFilters(params, confidence, support, lift, occurrences) ==
    /\ RatioLeq(params.min_confidence, confidence)
    /\ RatioLeq(confidence, params.max_confidence)
    /\ RatioLeq(params.min_support, support)
    /\ RatioLeq(support, params.max_support)
    /\ RatioLeq(params.min_lift, lift)
    /\ (params.max_lift = NoRatio \/ RatioLeq(lift, params.max_lift))
    /\ (params.max_occurrences = None \/ occurrences <= params.max_occurrences)
    /\ occurrences >= params.min_occurrences

\* rules_temp after the loop over self.common_sense_rules: a dict from the frozenset
\* of the compressed items of a rule to its confidence, a later rule of an itemset
\* writing over an earlier one
RECURSIVE SeedRulesTemp(_)
SeedRulesTemp(rules) ==
    IF rules = <<>> THEN <<>>
    ELSE LET common_sense_rule == rules[Len(rules)]
             itemset_key == Range(common_sense_rule.consequents_compressed
                                  \o common_sense_rule.antecedents_compressed)
         IN (itemset_key :> RuleConfidence(common_sense_rule))
            @@ SeedRulesTemp(SubSeq(rules, 1, Len(rules) - 1))

\* _any_preexisting_rule_with_antecedents_subset_and_same_confidence
AnyPreexistingRule(rules_temp, antecedents_compressed, consequents_compressed, confidence, confidence_tolerance) ==
    LET combined_set == Range(antecedents_compressed) \cup Range(consequents_compressed)
    IN \E rule_itemset \in DOMAIN rules_temp :
          /\ rule_itemset \subseteq combined_set
          /\ \/ RatioEq(rules_temp[rule_itemset], Ratio(1, 1))
             \/ RatioWithin(rules_temp[rule_itemset], confidence, confidence_tolerance)

\* the body of the loop over the nodes of one level, for the node current_node: st
\* holds rules_temp, the rows of the result, next_nodes and the error raised, and
\* whether the walk goes below a node only if its confidence is not 1 (st.gated, TRUE
\* in the program)
WalkdownNode(st, T, s, params, current_node, current_node_antecedent_size) ==
    LET current_node_confidence == Confidence(T, current_node)
        current_node_parent == ParentNode(current_node)
        parent_confidence == Confidence(T, current_node_parent)
        parent_is_consequent == T.nodes[current_node_parent].is_consequent = TRUE
        current_node_occurrences == T.nodes[current_node].occurrences
        current_node_lift == Lift(T, current_node)
        current_node_support == Support(T, current_node)
        antecedents_compressed == AntecedentsCompressed(T, current_node)
        consequents_compressed == ConsequentsCompressed(T, current_node)
        row == [antecedents |-> DecompressItemset(antecedents_compressed, s.item_alphabet),
                consequents |-> DecompressItemset(consequents_compressed, s.item_alphabet),
                confidence |-> current_node_confidence.value,
                lift |-> current_node_lift.value,
                occurrences |-> current_node_occurrences,
                support |-> current_node_support.value,
                antecedents_length |-> current_node_antecedent_size,
                consequents_length |-> Len(consequents_compressed)]
        descended ==
            IF st.gated /\ RatioEq(current_node_confidence.value, Ratio(1, 1)) THEN st
            ELSE [st EXCEPT !.next_nodes =
                     @ \o [k \in DOMAIN T.nodes[current_node].children |->
                              Append(current_node, T.nodes[current_node].children[k])]]
    IN IF params.max_antecedents_length # None
          /\ current_node_antecedent_size > params.max_antecedents_length
       THEN st
       ELSE IF current_node_confidence.error # ""
            THEN [st EXCEPT !.error = current_node_confidence.error]
       ELSE IF ~parent_is_consequent /\ parent_confidence.error # ""
            THEN [st EXCEPT !.error = parent_confidence.error]
       ELSE IF ~parent_is_consequent
               /\ RatioEq(current_node_confidence.value, parent_confidence.value)
            THEN descended
       ELSE IF current_node_lift.error # ""
            THEN [st EXCEPT !.error = current_node_lift.error]
       ELSE IF current_node_support.error # ""
            THEN [st EXCEPT !.error = current_node_support.error]
       ELSE IF /\ PassesRuleFilters(params, current_node_confidence.value,
                                    current_node_support.value, current_node_lift.value,
                                    current_node_occurrences)
               /\ ~AnyPreexistingRule(st.rules_temp, antecedents_compressed,
                                      consequents_compressed, current_node_confidence.value,
                                      params.confidence_tolerance)
            THEN [descended EXCEPT
                    !.rows = Append(@, row),
                    !.rules_temp =
                        (Range(consequents_compressed \o antecedents_compressed)
                            :> current_node_confidence.value) @@ @]
       ELSE descended

\* the loop over the nodes of one level from position k on
RECURSIVE WalkdownNodes(_, _, _, _, _, _, _)
WalkdownNodes(st, T, s, params, nodes, current_node_antecedent_size, k) ==
    TheOnly({IF now.error # "" \/ k > Len(nodes) THEN now
             ELSE WalkdownNodes(
                     WalkdownNode(now, T, s, params, nodes[k], current_node_antecedent_size),
                     T, s, params, nodes, current_node_antecedent_size, k + 1) :
             now \in {st}})

\* _recursive_trie_walkdown_antecedents_with_consequent_breadth_first
RECURSIVE Walkdown(_, _, _, _, _, _)
Walkdown(st, T, s, params, nodes, current_node_antecedent_size) ==
    TheOnly({IF done.error # "" \/ done.next_nodes = <<>> THEN done
             ELSE Walkdown(done, T, s, params, done.next_nodes,
                           current_node_antecedent_size + 1) :
             done \in {WalkdownNodes([st EXCEPT !.next_nodes = <<>>], T, s, params, nodes,
                                     current_node_antecedent_size, 1)}})

\* the rows of the rules without antecedents, from position k of the consequent
\* nodes on: their antecedents are the list of one empty string, their length is 0
RECURSIVE NonAntecedentsRules(_, _, _, _, _)
NonAntecedentsRules(T, s, params, consequent_nodes, k) ==
    IF k > Len(consequent_nodes) THEN [error |-> "", rows |-> <<>>]
    ELSE LET consequent_node == consequent_nodes[k]
             confidence == Confidence(T, consequent_node)
             lift == Lift(T, consequent_node)
             occurrences == T.nodes[consequent_node].occurrences
             support == Support(T, consequent_node)
             rest == NonAntecedentsRules(T, s, params, consequent_nodes, k + 1)
             row == [antecedents |-> << <<>> >>,
                     consequents |-> DecompressItemset(consequent_node, s.item_alphabet),
                     confidence |-> confidence.value,
                     lift |-> lift.value,
                     occurrences |-> occurrences,
                     support |-> support.value,
                     antecedents_length |-> 0,
                     consequents_length |-> Len(ConsequentsCompressed(T, consequent_node))]
         IN IF confidence.error # "" THEN [error |-> confidence.error, rows |-> <<>>]
            ELSE IF lift.error # "" THEN [error |-> lift.error, rows |-> <<>>]
            ELSE IF support.error # "" THEN [error |-> support.error, rows |-> <<>>]
            ELSE IF rest.error # "" THEN rest
            ELSE IF PassesRuleFilters(params, confidence.value, support.value, lift.value,
                                      occurrences)
                 THEN [error |-> "", rows |-> <<row>> \o rest.rows]
                 ELSE rest

\* Database.derive_rules_columns_dict: the rows of the result, or the error raised;
\* gated is whether the walk goes below a node only if its confidence is not 1
DeriveRulesWalk(T, s, rules, params, gated) ==
    LET without_antecedents ==
            IF params.non_antecedents_rules
            THEN NonAntecedentsRules(T, s, params, GetAllConsequentNodesDepthFirst(T), 1)
            ELSE [error |-> "", rows |-> <<>>]
        walked == Walkdown([rules_temp |-> SeedRulesTemp(rules),
                            rows |-> without_antecedents.rows,
                            next_nodes |-> <<>>, error |-> "", gated |-> gated],
                           T, s, params, GetFirstAntecedentAfterConsequentsNodes(T), 1)
    IN IF s.consequents = {} THEN [error |-> "NoConsequents", rows |-> <<>>]
       ELSE IF without_antecedents.error # "" THEN without_antecedents
       ELSE [error |-> walked.error, rows |-> walked.rows]

\* Database.derive_rules_columns_dict as the program walks: "if current_node_confidence
\* != 1" before the children of a node are added to next_nodes
DeriveRulesColumnsDict(T, s, rules, params) == DeriveRulesWalk(T, s, rules, params, TRUE)

(***************************************************************************)
(* database.py: predict_consequents_list.                                  *)
(***************************************************************************)
\* a test that finds no common sense rule to match
MatchesNoRule(common_sense_rule, compressed_consequent, compressed_antecedents, skip_unknown_antecedents) == FALSE

\* the condition under which a common sense rule gives the probability
MatchesCommonSenseRule(common_sense_rule, compressed_consequent, compressed_antecedents, skip_unknown_antecedents) ==
    /\ compressed_consequent \in Range(common_sense_rule.consequents_compressed)
    /\ \/ /\ ~skip_unknown_antecedents
          /\ compressed_antecedents = common_sense_rule.antecedents_compressed
       \/ /\ skip_unknown_antecedents
          /\ \A k \in DOMAIN common_sense_rule.antecedents_compressed :
                common_sense_rule.antecedents_compressed[k] \in Range(compressed_antecedents)

\* the loop over self.common_sense_rules: the confidence of the last rule that
\* matches, None when no rule does
CommonSenseProbability(rules, compressed_consequent, compressed_antecedents, skip_unknown_antecedents) ==
    LET matching == {k \in DOMAIN rules :
                        MatchesCommonSenseRule(rules[k], compressed_consequent,
                                               compressed_antecedents,
                                               skip_unknown_antecedents)}
    IN IF matching = {} THEN NoRatio
       ELSE RuleConfidence(rules[CHOOSE k \in matching : \A j \in matching : j <= k])

\* the quotient of the two supports as it is
Undivided(p_consequent_intersect_antecedents, p_antecedents) ==
    p_consequent_intersect_antecedents

\* p_consequent_intersect_antecedents / p_antecedents if p_antecedents else None
Posterior(p_consequent_intersect_antecedents, p_antecedents) ==
    IF p_antecedents.num = 0 THEN NoRatio
    ELSE RatioDiv(p_consequent_intersect_antecedents, p_antecedents)

\* the try block: the probability read from the trie (None after a ValueError), or
\* the error that is not caught
TrieProbability(T, compressed_consequent, compressed_antecedents, skip_unknown_antecedents) ==
    LET both == GetNodeFromCompressed(T, <<compressed_consequent>> \o compressed_antecedents,
                                      skip_unknown_antecedents, FALSE)
        given == GetNodeFromCompressed(T, compressed_antecedents,
                                       skip_unknown_antecedents, FALSE)
        prior == GetNodeFromCompressed(T, <<compressed_consequent>>,
                                       skip_unknown_antecedents, FALSE)
    IN IF Len(compressed_antecedents) > 0
       THEN IF both.result # "node" THEN [error |-> "", value |-> NoRatio]
            ELSE IF Support(T, both.node).error # "" THEN Support(T, both.node)
            ELSE IF given.result # "node" THEN [error |-> "", value |-> NoRatio]
            ELSE [error |-> "",
                  value |-> Posterior(Support(T, both.node).value,
                                      Support(T, given.node).value)]
       ELSE IF prior.result # "node" THEN [error |-> "", value |-> NoRatio]
            ELSE Support(T, prior.node)

\* the key of the final sort: the probability if it is neither None nor 0, else 0
ProbabilityKey(row) ==
    IF row.probability = NoRatio THEN Ratio(0, 1) ELSE row.probability

\* sorted(total_result, key=..., reverse=True): stable, descending
RECURSIVE ProbabilityInsert(_, _)
ProbabilityInsert(sorted, x) ==
    IF sorted = <<>> THEN <<x>>
    ELSE IF RatioLeq(ProbabilityKey(x), ProbabilityKey(sorted[1])) THEN
            <<sorted[1]>> \o ProbabilityInsert(Tail(sorted), x)
    ELSE <<x>> \o sorted

RECURSIVE ProbabilitySort(_)
ProbabilitySort(seq) ==
    IF seq = <<>> THEN <<>>
    ELSE ProbabilityInsert(ProbabilitySort(SubSeq(seq, 1, Len(seq) - 1)), seq[Len(seq)])

\* the loop over compressed_consequents_to_iterate from position k on
RECURSIVE PredictRows(_, _, _, _, _, _, _, _)
PredictRows(T, s, rules, normalized_antecedents, compressed_antecedents, consequents, skip, k) ==
    IF k > Len(consequents) THEN [error |-> "", rows |-> <<>>]
    ELSE LET compressed_consequent == consequents[k]
             by_rule == CommonSenseProbability(rules, compressed_consequent,
                                               compressed_antecedents, skip)
             by_trie == TrieProbability(T, compressed_consequent, compressed_antecedents, skip)
             rest == PredictRows(T, s, rules, normalized_antecedents, compressed_antecedents,
                                 consequents, skip, k + 1)
             row == [antecedents |-> normalized_antecedents,
                     consequent |-> DecompressString(compressed_consequent, s.item_alphabet),
                     probability |-> IF by_rule # NoRatio THEN by_rule ELSE by_trie.value]
         IN IF by_rule = NoRatio /\ by_trie.error # ""
            THEN [error |-> by_trie.error, rows |-> <<>>]
            ELSE IF rest.error # "" THEN rest
            ELSE [error |-> "", rows |-> <<row>> \o rest.rows]

\* Database.predict_consequents_list, for the lists that normalize_uncompressed_itemset
\* has made of the antecedents and of the consequents asked for (none asked for:
\* all the consequents of the database): the rows returned, or the error raised
PredictConsequentsList(T, s, rules, normalized_antecedents, normalized_consequents, skip) ==
    LET compressed_consequents_to_iterate ==
            IF normalized_consequents # <<>> THEN CompressItemset(s, normalized_consequents)
            ELSE CompressItemset(s, SortedStrings(NormalizedConsequents(s)))
        predicted == PredictRows(T, s, rules, normalized_antecedents,
                                 CompressItemset(s, normalized_antecedents),
                                 compressed_consequents_to_iterate, skip, 1)
    IN IF \E item \in Range(normalized_antecedents) : CompressRaises(item, s.item_alphabet)
       THEN [error |-> "InvalidItemChar", rows |-> <<>>]
       ELSE IF \E item \in Range(normalized_consequents) : item \notin NormalizedConsequents(s)
            THEN [error |-> "UnknownConsequent", rows |-> <<>>]
       ELSE IF predicted.error # "" THEN predicted
       ELSE [error |-> "", rows |-> ProbabilitySort(predicted.rows)]

(***************************************************************************)
(* The inputs of the model.                                                *)
(***************************************************************************)
\* the strings of at most n characters among chars
RECURSIVE StringsUpTo(_, _)
StringsUpTo(chars, n) ==
    IF n = 0 THEN {<<>>}
    ELSE StringsUpTo(chars, n - 1)
         \cup {Append(string, c) : string \in StringsUpTo(chars, n - 1), c \in chars}

\* the raw items callers pass: "x", "a", "b" and "B " (upper case, trailing space)
RawItems == {<<120>>, <<97>>, <<98>>, <<66, 32>>}

\* the transactions callers insert: lists of raw items, in any order, with repeats
Transactions == UNION {[1..n -> RawItems] : n \in 0..MaxLen}

\* the transactions callers ask to remove: the order and the repeats of the items
\* are lost when they are normalised into a set, so one list stands for each set
ItemSets ==
    {t \in Transactions : \A k \in 1..(Len(t) - 1) : StrLess(t[k], t[k + 1])}

\* the settings the databases are created with
SettingsValues ==
    {Settings({<<120>>}, TRUE, TRUE, None, NoAlphabet),
     Settings({<<120>>}, TRUE, FALSE, None, NoAlphabet),
     Settings({<<120>>}, TRUE, TRUE, 1, NoAlphabet),
     Settings({<<120>>, <<97>>}, TRUE, TRUE, 2, NoAlphabet),
     Settings({<<120>>}, TRUE, TRUE, None, <<97, 98, 120>>)}

\* the databases of the model
Databases == {1, 2}

(***************************************************************************)
(* The state.                                                              *)
(***************************************************************************)
VARIABLES
    settings,            \* settings[d]: Database.settings
    itemsets_trie,       \* itemsets_trie[d]: Database.itemsets_trie
    common_sense_rules,  \* common_sense_rules[d]: Database.common_sense_rules
    last_call,           \* the last call: its name, arguments and how it ended
    inserted,            \* inserted[d]: the bag of the transactions inserted and not removed
    log,                 \* log[d]: the transactions inserted, in order, where kept
    calls,               \* the number of calls made
    result               \* what the last call of a function or a query returned

vars == <<settings, itemsets_trie, common_sense_rules, last_call, inserted, log, calls, result>>

\* a call as last_call keeps it: the lists are those handed to the trie
Call(op, d, other, lists, silent, rules, error) ==
    [op |-> op, db |-> d, other |-> other, consequents |-> lists.consequents,
     antecedents |-> lists.antecedents, silent |-> silent, rules |-> rules, error |-> error]

NoLists == [consequents |-> <<>>, antecedents |-> <<>>]

\* nothing was returned yet
NoResult == [op |-> "none"]

InitWith(values) ==
    /\ \E s \in values : settings = [d \in Databases |-> s]
    /\ itemsets_trie = [d \in Databases |-> ItemsetsTrie]
    /\ common_sense_rules = [d \in Databases |-> <<>>]
    /\ last_call = Call("new", 0, 0, NoLists, FALSE, {}, "")
    /\ inserted = [d \in Databases |-> EmptyBag]
    /\ log = [d \in Databases |-> <<>>]
    /\ calls = 0
    /\ result = NoResult

Init == InitWith(SettingsValues)

(***************************************************************************)
(* The operations.                                                         *)
(***************************************************************************)
\* Database.insert_transaction(transaction) on database d
InsertTransactionCall(d, transaction) ==
    LET lists == InsertTransactionLists(settings[d], transaction)
        done == DatabaseInsertTransaction(itemsets_trie[d], settings[d], transaction)
    IN /\ itemsets_trie' = [itemsets_trie EXCEPT ![d] = done.trie]
       /\ inserted' = IF done.error = ""
                      THEN [inserted EXCEPT ![d] =
                              @ (+) SetToBag({Range(lists.consequents \o lists.antecedents)})]
                      ELSE inserted
       /\ last_call' = Call("insert_transaction", d, 0, lists, FALSE, {}, done.error)
       /\ UNCHANGED <<settings, common_sense_rules>>

\* Database.remove_transaction(transaction, silent) on database d
RemoveTransactionCall(d, transaction, silent) ==
    \E lists \in RemoveTransactionLists(settings[d], transaction) :
        LET done == RemoveConsequentsAntecedentsCompressed(
                        itemsets_trie[d], lists.consequents, lists.antecedents, silent)
            items == Range(lists.consequents \o lists.antecedents)
        IN /\ itemsets_trie' = [itemsets_trie EXCEPT ![d] = done.trie]
           /\ inserted' = IF done.error = "" /\ BagIn(items, inserted[d])
                          THEN [inserted EXCEPT ![d] = @ (-) SetToBag({items})]
                          ELSE inserted
           /\ last_call' = Call("remove_transaction", d, 0, lists, silent, {}, done.error)
           /\ UNCHANGED <<settings, common_sense_rules>>

\* Database.merge_database_pair(database1, database2) with inplace=True
MergeDatabasePairCall(database1, database2) ==
    IF ~SettingsEq(settings[database1], settings[database2])
    THEN /\ last_call' = Call("merge_database_pair", database1, database2, NoLists, FALSE, {},
                              "SettingsMismatch")
         /\ UNCHANGED <<settings, itemsets_trie, common_sense_rules, inserted>>
    ELSE LET both == <<database1, database2>>
             target == both[MergeTarget(itemsets_trie[database1], itemsets_trie[database2])]
             source == database2
             counted == [itemsets_trie[target] EXCEPT !.number_transactions =
                            @ + itemsets_trie[source].number_transactions]
         IN /\ itemsets_trie' =
                  [itemsets_trie EXCEPT ![target] =
                      TrieMerge(counted, itemsets_trie[source], settings[target].item_alphabet)]
            /\ common_sense_rules' =
                  [common_sense_rules EXCEPT ![target] =
                      InsertCommonSenseRulesList(@, common_sense_rules[source])]
            /\ inserted' = [inserted EXCEPT ![target] = @ (+) inserted[source]]
            /\ last_call' = Call("merge_database_pair", database1, database2, NoLists, FALSE,
                                 Range(common_sense_rules[source]), "")
            /\ UNCHANGED settings

\* Database.insert_common_sense_rules(common_sense_rules_to_insert) on database d
InsertCommonSenseRulesCall(d, common_sense_rules_to_insert) ==
    /\ common_sense_rules' =
          [common_sense_rules EXCEPT ![d] =
              InsertCommonSenseRulesList(@, common_sense_rules_to_insert)]
    /\ last_call' = Call("insert_common_sense_rules", d, 0, NoLists, FALSE,
                         Range(common_sense_rules_to_insert), "")
    /\ UNCHANGED <<settings, itemsets_trie, inserted>>

\* Database.remove_common_sense_rule(antecedents, consequents, confidence) on database d
RemoveCommonSenseRuleCall(d, common_sense_rule_to_delete) ==
    /\ common_sense_rules' =
          [common_sense_rules EXCEPT ![d] =
              SelectSeq(@, LAMBDA rule : ~RuleEq(rule, common_sense_rule_to_delete))]
    /\ last_call' = Call("remove_common_sense_rule", d, 0, NoLists, FALSE,
                         {common_sense_rule_to_delete}, "")
    /\ UNCHANGED <<settings, itemsets_trie, inserted>>

\* Database.clear_common_sense_rules() on database d
ClearCommonSenseRulesCall(d) ==
    /\ common_sense_rules' = [common_sense_rules EXCEPT ![d] = <<>>]
    /\ last_call' = Call("clear_common_sense_rules", d, 0, NoLists, FALSE, {}, "")
    /\ UNCHANGED <<settings, itemsets_trie, inserted>>

\* one more call, while fewer than limit calls were made
OneMoreCall(limit) ==
    /\ calls < limit
    /\ calls' = calls + 1

(***************************************************************************)
(* Spec: two databases of equal settings; callers insert any list of raw   *)
(* items, remove any set of them and merge one database into the other.    *)
(***************************************************************************)
InsertTransaction(d, transaction) ==
    /\ OneMoreCall(MaxCalls)
    /\ InsertTransactionCall(d, transaction)
    /\ UNCHANGED <<log, result>>

RemoveTransaction(d, transaction, silent) ==
    /\ OneMoreCall(MaxCalls)
    /\ RemoveTransactionCall(d, transaction, silent)
    /\ UNCHANGED <<log, result>>

MergeDatabasePair(database1, database2) ==
    /\ database1 # database2
    /\ OneMoreCall(MaxCalls)
    /\ MergeDatabasePairCall(database1, database2)
    /\ UNCHANGED <<log, result>>

Next ==
    \/ \E d \in Databases, t \in Transactions : InsertTransaction(d, t)
    \/ \E d \in Databases, t \in ItemSets, silent \in BOOLEAN : RemoveTransaction(d, t, silent)
    \/ \E d1, d2 \in Databases : MergeDatabasePair(d1, d2)

Spec == Init /\ [][Next]_vars

(***************************************************************************)
(* SpecClean: longer histories of a caller that keeps to the contract: the *)
(* transactions are clean (sets of the items "x", "a" and "b", "x" being   *)
(* the consequent) and only a transaction that the database holds is       *)
(* removed from it.                                                        *)
(***************************************************************************)
CleanTransactions == {t \in ItemSets : Range(t) \subseteq {<<120>>, <<97>>, <<98>>}}

InitClean ==
    InitWith({Settings({<<120>>}, TRUE, TRUE, None, NoAlphabet),
              Settings({<<120>>}, TRUE, TRUE, 1, NoAlphabet)})

CleanInsert(d, transaction) ==
    /\ OneMoreCall(MaxCleanCalls)
    /\ InsertTransactionCall(d, transaction)
    /\ UNCHANGED <<log, result>>

CleanRemove(d, transaction, silent) ==
    /\ OneMoreCall(MaxCleanCalls)
    /\ BagIn(Range(transaction), inserted[d])
    /\ RemoveTransactionCall(d, transaction, silent)
    /\ UNCHANGED <<log, result>>

CleanMerge(database1, database2) ==
    /\ database1 # database2
    /\ OneMoreCall(MaxCleanCalls)
    /\ MergeDatabasePairCall(database1, database2)
    /\ UNCHANGED <<log, result>>

NextClean ==
    \/ \E d \in Databases, t \in CleanTransactions : CleanInsert(d, t)
    \/ \E d \in Databases, t \in CleanTransactions, silent \in BOOLEAN : CleanRemove(d, t, silent)
    \/ \E d1, d2 \in Databases : CleanMerge(d1, d2)

SpecClean == InitClean /\ [][NextClean]_vars

(***************************************************************************)
(* SpecMerge: databases built by insertion and merged; log[d] keeps the    *)
(* transactions that went into database d, a merge adding those of the     *)
(* source after those of the target.                                       *)
(***************************************************************************)
LoggedInsert(d, transaction) ==
    /\ OneMoreCall(MaxLogged)
    /\ InsertTransactionCall(d, transaction)
    /\ log' = [log EXCEPT ![d] = Append(@, transaction)]
    /\ UNCHANGED result

LoggedMerge(database1, database2) ==
    /\ database1 # database2
    /\ OneMoreCall(MaxLogged)
    /\ MergeDatabasePairCall(database1, database2)
    /\ log' = [log EXCEPT ![database1] = @ \o log[database2]]
    /\ UNCHANGED result

NextMerge ==
    \/ \E d \in Databases, t \in ItemSets : LoggedInsert(d, t)
    \/ \E d1, d2 \in Databases : LoggedMerge(d1, d2)

InitMerge ==
    InitWith({Settings({<<120>>}, TRUE, TRUE, None, NoAlphabet),
              Settings({<<120>>}, TRUE, FALSE, 1, NoAlphabet),
              Settings({<<120>>}, TRUE, TRUE, None, <<97, 98, 120>>)})

SpecMerge == InitMerge /\ [][NextMerge]_vars

\* the database that insert_transaction builds from the transactions of a log
RECURSIVE Build(_, _)
Build(s, transactions) ==
    IF transactions = <<>> THEN ItemsetsTrie
    ELSE DatabaseInsertTransaction(
            Build(s, SubSeq(transactions, 1, Len(transactions) - 1)), s,
            transactions[Len(transactions)]).trie

(***************************************************************************)
(* SpecCS: the common sense rules of two databases.                        *)
(***************************************************************************)
\* the rules callers pass: antecedents among "a" and "b", consequents "x" or "y",
\* confidence 0.5 or 1
RuleInputs(s) ==
    {CommonSenseRule(s, antecedents, consequents, confidence) :
        antecedents \in UNION {NormalizedSorted(s, itemset) :
                                  itemset \in {{<<97>>}, {<<98>>}, {<<97>>, <<98>>}}},
        consequents \in UNION {NormalizedSorted(s, itemset) : itemset \in {{<<120>>}, {<<121>>}}},
        confidence \in {50, 100}}

\* the batches callers pass: lists of rules; the order of a list is lost when
\* insert_common_sense_rules makes a set of it, so one list stands for each order
Batches(s) ==
    {batch \in UNION {[1..n -> RuleInputs(s)] : n \in 1..MaxBatch} :
        \A k \in 1..(Len(batch) - 1) : ~RuleLess(batch[k + 1], batch[k])}

InitCS ==
    InitWith({Settings({<<120>>, <<121>>}, TRUE, TRUE, None, NoAlphabet),
              Settings({<<120>>, <<121>>}, TRUE, TRUE, None, <<97, 98, 120, 121>>)})

InsertCommonSenseRules(d) ==
    /\ OneMoreCall(MaxRuleCalls)
    /\ \E batch \in Batches(settings[d]) : InsertCommonSenseRulesCall(d, batch)
    /\ UNCHANGED <<log, result>>

RemoveCommonSenseRule(d) ==
    /\ OneMoreCall(MaxRuleCalls)
    /\ \E rule \in RuleInputs(settings[d]) : RemoveCommonSenseRuleCall(d, rule)
    /\ UNCHANGED <<log, result>>

ClearCommonSenseRules(d) ==
    /\ OneMoreCall(MaxRuleCalls)
    /\ ClearCommonSenseRulesCall(d)
    /\ UNCHANGED <<log, result>>

MergeRules(database1, database2) ==
    /\ database1 # database2
    /\ OneMoreCall(MaxRuleCalls)
    /\ MergeDatabasePairCall(database1, database2)
    /\ UNCHANGED <<log, result>>

NextCS ==
    \/ \E d \in Databases : InsertCommonSenseRules(d)
    \/ \E d \in Databases : RemoveCommonSenseRule(d)
    \/ \E d \in Databases : ClearCommonSenseRules(d)
    \/ \E d1, d2 \in Databases : MergeRules(d1, d2)

SpecCS == InitCS /\ [][NextCS]_vars

(***************************************************************************)
(* SpecRules: one database with the consequent "x" (or the consequents "x" *)
(* and "a"), built by the insertion of clean transactions that are not     *)
(* empty and given at most MaxRules common sense rules; callers derive the *)
(* rules of it under several parameters.                                   *)
(***************************************************************************)
\* the database callers query
QueryDatabases == {1}

\* the common sense rules callers give to it: "b" => "x" at 0.5 or 1
QueryRules(s) ==
    {CommonSenseRule(s, antecedents, <<<<120>>>>, confidence) :
        antecedents \in NormalizedSorted(s, {<<98>>}),
        confidence \in {50, 100}}

\* the parameters of derive_rules_columns_dict callers pass, the others left at
\* their defaults: the defaults, non_antecedents_rules, min_confidence with a
\* confidence_tolerance, and max_antecedents_length with both
RuleParams ==
    {[min_confidence |-> four[1], max_confidence |-> Ratio(1, 1),
      confidence_tolerance |-> four[3],
      min_lift |-> Ratio(0, 1), max_lift |-> NoRatio,
      min_support |-> Ratio(0, 1), max_support |-> Ratio(1, 1),
      min_occurrences |-> 0, max_occurrences |-> None,
      max_antecedents_length |-> four[2],
      non_antecedents_rules |-> four[4]] :
        four \in {<<Ratio(0, 1), None, Ratio(0, 1), FALSE>>,
                  <<Ratio(0, 1), None, Ratio(0, 1), TRUE>>,
                  <<Ratio(1, 2), None, Ratio(1, 4), FALSE>>,
                  <<Ratio(0, 1), 1, Ratio(1, 4), TRUE>>}}

InitRules ==
    InitWith({Settings({<<120>>}, TRUE, TRUE, None, NoAlphabet),
              Settings({<<120>>, <<97>>}, TRUE, TRUE, None, NoAlphabet)})

\* Database.insert_transaction(transaction) on the database
RulesInsert(d, transaction) ==
    /\ OneMoreCall(MaxRuleQueryCalls)
    /\ InsertTransactionCall(d, transaction)
    /\ result' = NoResult
    /\ UNCHANGED log

\* Database.insert_common_sense_rule(antecedents, consequents, confidence)
RulesInsertCommonSenseRule(d) ==
    /\ Len(common_sense_rules[d]) < MaxRules
    /\ \E rule \in QueryRules(settings[d]) : InsertCommonSenseRulesCall(d, <<rule>>)
    /\ result' = NoResult
    /\ UNCHANGED <<log, calls>>

\* Database.derive_rules_columns_dict(**params) on database d
DeriveRulesCall(d, params) ==
    LET derived == DeriveRulesColumnsDict(itemsets_trie[d], settings[d],
                                          common_sense_rules[d], params)
    IN /\ result' = [op |-> "derive_rules_columns_dict", db |-> d, params |-> params,
                     error |-> derived.error, rows |-> derived.rows]
       /\ last_call' = Call("derive_rules_columns_dict", d, 0, NoLists, FALSE, {},
                            derived.error)
       /\ UNCHANGED <<settings, itemsets_trie, common_sense_rules, inserted>>

\* the caller derives the rules of a database after it has changed: to derive them
\* changes nothing, so to derive them again returns the same
DeriveRules(d, params) ==
    /\ result = NoResult
    /\ DeriveRulesCall(d, params)
    /\ UNCHANGED <<log, calls>>

NextRules ==
    \/ \E d \in QueryDatabases, t \in CleanTransactions \ {<<>>} : RulesInsert(d, t)
    \/ \E d \in QueryDatabases : RulesInsertCommonSenseRule(d)
    \/ \E d \in QueryDatabases, params \in RuleParams : DeriveRules(d, params)

SpecRules == InitRules /\ [][NextRules]_vars

(***************************************************************************)
(* SpecPredict: one database built by the insertion of clean transactions  *)
(* that are not empty and given at most MaxRules common sense rules;       *)
(* callers ask it for the probabilities of its consequents.                *)
(***************************************************************************)
\* the antecedents callers pass to predict_consequents_list: none, "a", "b", both,
\* and "b" with the item "c" that no transaction holds
PredictAntecedents == {{}, {<<97>>}, {<<98>>}, {<<97>>, <<98>>}, {<<98>>, <<99>>}}

\* the consequents callers ask for: all of them (nothing passed), or "x"
PredictConsequents == {{}, {<<120>>}}

InitPredict ==
    InitWith({Settings({<<120>>}, TRUE, TRUE, None, NoAlphabet),
              Settings({<<120>>}, TRUE, TRUE, 1, NoAlphabet),
              Settings({<<120>>, <<121>>}, TRUE, TRUE, None, NoAlphabet),
              Settings({<<120>>}, TRUE, TRUE, None, <<97, 98, 120>>)})

\* Database.insert_transaction(transaction) on the database
PredictInsert(d, transaction) ==
    /\ OneMoreCall(MaxPredictCalls)
    /\ InsertTransactionCall(d, transaction)
    /\ result' = NoResult
    /\ UNCHANGED log

\* Database.insert_common_sense_rule(antecedents, consequents, confidence)
PredictInsertCommonSenseRule(d) ==
    /\ Len(common_sense_rules[d]) < MaxRules
    /\ \E rule \in QueryRules(settings[d]) : InsertCommonSenseRulesCall(d, <<rule>>)
    /\ result' = NoResult
    /\ UNCHANGED <<log, calls>>

\* Database.predict_consequents_list(antecedents, consequents, skip_unknown_antecedents)
PredictConsequentsListCall(d, antecedents, consequents, skip_unknown_antecedents) ==
    \E normalized_antecedents \in NormalizedSorted(settings[d], antecedents),
       normalized_consequents \in NormalizedSorted(settings[d], consequents) :
        LET predicted == PredictConsequentsList(
                            itemsets_trie[d], settings[d], common_sense_rules[d],
                            normalized_antecedents, normalized_consequents,
                            skip_unknown_antecedents)
        IN /\ result' = [op |-> "predict_consequents_list", db |-> d,
                         antecedents |-> normalized_antecedents,
                         skip_unknown_antecedents |-> skip_unknown_antecedents,
                         error |-> predicted.error, rows |-> predicted.rows]
           /\ last_call' = Call("predict_consequents_list", d, 0, NoLists, FALSE, {},
                                predicted.error)
           /\ UNCHANGED <<settings, itemsets_trie, common_sense_rules, inserted>>

\* the caller asks after the database has changed: to ask changes nothing
PredictConsequentsListOf(d, antecedents, consequents, skip_unknown_antecedents) ==
    /\ result = NoResult
    /\ PredictConsequentsListCall(d, antecedents, consequents, skip_unknown_antecedents)
    /\ UNCHANGED <<log, calls>>

NextPredict ==
    \/ \E d \in QueryDatabases, t \in CleanTransactions \ {<<>>} : PredictInsert(d, t)
    \/ \E d \in QueryDatabases : PredictInsertCommonSenseRule(d)
    \/ \E d \in QueryDatabases, antecedents \in PredictAntecedents,
          consequents \in PredictConsequents, skip \in BOOLEAN :
            PredictConsequentsListOf(d, antecedents, consequents, skip)

SpecPredict == InitPredict /\ [][NextPredict]_vars

(***************************************************************************)
(* SpecItemsets: a database is filled and asked for its frequent itemsets. *)
(***************************************************************************)
\* the parameters of derive_frequent_itemsets_columns_dict callers set
ItemsetParams ==
    LET Params(filter, min_length, max_length, min_occurrences, max_occurrences, min_support, max_support) ==
            [filter_to_consequent_itemsets_only |-> filter,
             min_itemset_length |-> min_length, max_itemset_length |-> max_length,
             min_occurrences |-> min_occurrences, max_occurrences |-> max_occurrences,
             min_support |-> min_support, max_support |-> max_support]
    IN {Params(FALSE, 0, None, 0, None, Ratio(0, 1), Ratio(1, 1)),
        Params(TRUE, 0, None, 0, None, Ratio(0, 1), Ratio(1, 1)),
        Params(FALSE, 2, None, 0, None, Ratio(0, 1), Ratio(1, 1)),
        Params(TRUE, 0, 2, 2, None, Ratio(0, 1), Ratio(1, 1)),
        Params(FALSE, 1, 3, 0, 1, Ratio(0, 1), Ratio(1, 1)),
        Params(TRUE, 0, None, 0, None, Ratio(1, 2), Ratio(1, 1)),
        Params(FALSE, 0, None, 0, None, Ratio(0, 1), Ratio(1, 2))}

InitItemsets ==
    InitWith({Settings({<<120>>}, TRUE, TRUE, None, NoAlphabet),
              Settings({<<120>>, <<97>>}, TRUE, FALSE, None, NoAlphabet),
              Settings({<<120>>}, TRUE, TRUE, 1, <<97, 98, 120>>)})

ItemsetsInsert(d, transaction) ==
    /\ OneMoreCall(MaxItemsetCalls)
    /\ InsertTransactionCall(d, transaction)
    /\ result' = NoResult
    /\ UNCHANGED log

\* Database.derive_frequent_itemsets_columns_dict(...) on database d
DeriveFrequentItemsets(d, params) ==
    /\ result = NoResult
    /\ LET derived == DeriveFrequentItemsetsColumnsDict(itemsets_trie[d], settings[d], params)
       IN result' = [op |-> "derive_frequent_itemsets", db |-> d, params |-> params,
                     error |-> derived.error, rows |-> derived.rows]
    /\ UNCHANGED <<settings, itemsets_trie, common_sense_rules, last_call, inserted, log,
                   calls>>

NextItemsets ==
    \/ \E d \in QueryDatabases, t \in CleanTransactions : ItemsetsInsert(d, t)
    \/ \E d \in QueryDatabases, params \in ItemsetParams : DeriveFrequentItemsets(d, params)

SpecItemsets == InitItemsets /\ [][NextItemsets]_vars

(***************************************************************************)
(* SpecNormalize: an item is normalised, and what comes out is normalised  *)
(* again, by the normalisation of normalize_uncompressed_itemset and by    *)
(* that of insert_transaction.                                             *)
(***************************************************************************)
\* the items callers pass: the strings of at most MaxRawLen characters among "a", "B",
\* the space, the tab and the carriage return
RawStrings == StringsUpTo({97, 66, 32, 9, 13}, MaxRawLen)

\* the four combinations of normalize_whitespace and case_insensitive
InitNormalize ==
    InitWith({Settings({<<120>>}, nw, ci, None, NoAlphabet) : nw \in BOOLEAN, ci \in BOOLEAN})

\* PrePostProcessor.normalize_uncompressed_itemset([item], sort_result=False) of
\* database d
NormalizeItemset(d, item) ==
    /\ result = NoResult
    /\ result' = [op |-> "normalize_uncompressed_itemset", db |-> d, pass |-> 1,
                  original |-> item, item |-> item,
                  normalized |-> NormalizeItem(settings[d], item)]
    /\ UNCHANGED <<settings, itemsets_trie, common_sense_rules, last_call, inserted, log,
                   calls>>

\* the normalisation of one item of the transaction in Database.insert_transaction of
\* database d
InsertNormalize(d, item) ==
    /\ result = NoResult
    /\ result' = [op |-> "insert_transaction", db |-> d, pass |-> 1,
                  original |-> item, item |-> item,
                  normalized |-> InsertNormalizeItem(settings[d], item)]
    /\ UNCHANGED <<settings, itemsets_trie, common_sense_rules, last_call, inserted, log,
                   calls>>

\* the same normalisation of database d once more, of the item that came out of it
NormalizeAgain(d) ==
    /\ result # NoResult
    /\ result.pass = 1
    /\ result' = [result EXCEPT
                     !.pass = 2,
                     !.item = result.normalized,
                     !.normalized =
                         IF result.op = "insert_transaction"
                         THEN InsertNormalizeItem(settings[d], result.normalized)
                         ELSE NormalizeItem(settings[d], result.normalized)]
    /\ UNCHANGED <<settings, itemsets_trie, common_sense_rules, last_call, inserted, log,
                   calls>>

NextNormalize ==
    \/ \E d \in QueryDatabases, item \in RawStrings : NormalizeItemset(d, item)
    \/ \E d \in QueryDatabases, item \in RawStrings : InsertNormalize(d, item)
    \/ \E d \in QueryDatabases : NormalizeAgain(d)

SpecNormalize == InitNormalize /\ [][NextNormalize]_vars

(***************************************************************************)
(* SpecDescent: a database is filled with transactions that may repeat an  *)
(* item and asked for its rules.                                           *)
(***************************************************************************)
\* the transactions callers insert: the items "a" and "x", each as often as the caller
\* likes, in ascending order (insert_transaction sorts them)
RepeatTransactions ==
    {t \in UNION {[1..n -> {<<97>>, <<120>>}] : n \in 1..MaxRepeatLen} :
        \A k \in 1..(Len(t) - 1) : ~StrLess(t[k + 1], t[k])}

InitDescent == InitWith({Settings({<<120>>}, TRUE, TRUE, None, NoAlphabet)})

DescentInsert(d, transaction) ==
    /\ OneMoreCall(MaxDescentCalls)
    /\ InsertTransactionCall(d, transaction)
    /\ result' = NoResult
    /\ UNCHANGED log

\* Database.derive_rules_columns_dict() with the parameters at their defaults
DescentDeriveRules(d, params) ==
    /\ result = NoResult
    /\ DeriveRulesCall(d, params)
    /\ UNCHANGED <<log, calls>>

NextDescent ==
    \/ \E d \in QueryDatabases, t \in RepeatTransactions : DescentInsert(d, t)
    \/ \E d \in QueryDatabases, params \in {p \in RuleParams : p.max_antecedents_length = None /\ ~p.non_antecedents_rules} :
          DescentDeriveRules(d, params)

SpecDescent == InitDescent /\ [][NextDescent]_vars

(***************************************************************************)
(* SpecVisit: a database is filled, then its trie is walked by             *)
(* visit_itemset_nodes_depth_first, one pass of the loop at a time.        *)
(***************************************************************************)
InitVisit ==
    InitWith({Settings({<<120>>}, TRUE, TRUE, None, NoAlphabet),
              Settings({<<120>>, <<97>>}, TRUE, TRUE, None, NoAlphabet)})

VisitInsert(d, transaction) ==
    /\ result = NoResult
    /\ OneMoreCall(MaxVisitCalls)
    /\ InsertTransactionCall(d, transaction)
    /\ UNCHANGED <<log, result>>

\* the call of visit_itemset_nodes_depth_first(visitor, only_with_consequents) up to
\* the loop: next_node = self.root_node
VisitStart(d, visitor, only_with_consequents) ==
    /\ result = NoResult
    /\ result' = [op |-> "visit_itemset_nodes_depth_first", db |-> d, visitor |-> visitor,
                  only_with_consequents |-> only_with_consequents,
                  next_node |-> root_node, visited |-> <<>>, returned |-> FALSE]
    /\ UNCHANGED <<settings, itemsets_trie, common_sense_rules, last_call, inserted, log,
                   calls>>

\* one pass of the loop
VisitStep(d) ==
    /\ result # NoResult
    /\ result.db = d
    /\ ~result.returned
    /\ result' = VisitLoopBody(itemsets_trie[d], result)
    /\ UNCHANGED <<settings, itemsets_trie, common_sense_rules, last_call, inserted, log,
                   calls>>

NextVisit ==
    \/ \E d \in QueryDatabases, t \in CleanTransactions : VisitInsert(d, t)
    \/ \E d \in QueryDatabases, visitor \in {"all", "skip_a", "stop_b"},
          only_with_consequents \in BOOLEAN : VisitStart(d, visitor, only_with_consequents)
    \/ \E d \in QueryDatabases : VisitStep(d)

\* the walk runs in one thread that nothing stops: a pass that can be made is made
SpecVisit ==
    InitVisit /\ [][NextVisit]_vars /\ WF_vars(\E d \in QueryDatabases : VisitStep(d))

(***************************************************************************)
(* SpecLookup: a database is filled and nodes of its trie are looked up.   *)
(***************************************************************************)
\* the paths callers look up: the lists of at most MaxPathLen items among "a", "b" and
\* "x", in any order
LookupPaths == UNION {[1..n -> {<<97>>, <<98>>, <<120>>}] : n \in 0..MaxPathLen}

InitLookup ==
    InitWith({Settings({<<120>>}, TRUE, TRUE, None, NoAlphabet),
              Settings({<<120>>}, TRUE, TRUE, None, <<97, 98, 120>>)})

LookupInsert(d, transaction) ==
    /\ OneMoreCall(MaxLookupCalls)
    /\ InsertTransactionCall(d, transaction)
    /\ result' = NoResult
    /\ UNCHANGED log

\* ItemsetsTrie.get_node_from_compressed(compressed_itemset, skip_unknown_items,
\* none_if_not_exists) on the trie of database d, for the compressed items of a path
GetNode(d, path, skip_unknown_items, none_if_not_exists) ==
    /\ result = NoResult
    /\ LET compressed_itemset == CompressItemset(settings[d], path)
           got == GetNodeFromCompressed(itemsets_trie[d], compressed_itemset,
                                        skip_unknown_items, none_if_not_exists)
       IN result' = [op |-> "get_node_from_compressed", db |-> d,
                     compressed_itemset |-> compressed_itemset,
                     skip_unknown_items |-> skip_unknown_items,
                     none_if_not_exists |-> none_if_not_exists,
                     result |-> got.result, node |-> got.node]
    /\ UNCHANGED <<settings, itemsets_trie, common_sense_rules, last_call, inserted, log,
                   calls>>

NextLookup ==
    \/ \E d \in QueryDatabases, t \in CleanTransactions : LookupInsert(d, t)
    \/ \E d \in QueryDatabases, path \in LookupPaths, skip_unknown_items \in BOOLEAN,
          none_if_not_exists \in BOOLEAN :
              GetNode(d, path, skip_unknown_items, none_if_not_exists)

SpecLookup == InitLookup /\ [][NextLookup]_vars

(***************************************************************************)
(* SpecGate: two databases, each created with settings of its own, are     *)
(* filled and merged.                                                      *)
(***************************************************************************)
\* the settings a database is created with: the defaults with the consequent "x", and
\* the same with one parameter changed
GateSettings ==
    {SettingsWith({<<120>>}, TRUE, TRUE, None, <<32, 8746, 32>>, <<61>>, FALSE, NoAlphabet),
     SettingsWith({<<120>>, <<97>>}, TRUE, TRUE, None, <<32, 8746, 32>>, <<61>>, FALSE, NoAlphabet),
     SettingsWith({<<120>>}, FALSE, TRUE, None, <<32, 8746, 32>>, <<61>>, FALSE, NoAlphabet),
     SettingsWith({<<120>>}, TRUE, FALSE, None, <<32, 8746, 32>>, <<61>>, FALSE, NoAlphabet),
     SettingsWith({<<120>>}, TRUE, TRUE, 1, <<32, 8746, 32>>, <<61>>, FALSE, NoAlphabet),
     SettingsWith({<<120>>}, TRUE, TRUE, None, <<44>>, <<61>>, FALSE, NoAlphabet),
     SettingsWith({<<120>>}, TRUE, TRUE, None, <<32, 8746, 32>>, <<58>>, FALSE, NoAlphabet),
     SettingsWith({<<120>>}, TRUE, TRUE, None, <<32, 8746, 32>>, <<61>>, TRUE, NoAlphabet),
     SettingsWith({<<120>>}, TRUE, TRUE, None, <<32, 8746, 32>>, <<61>>, FALSE, <<97, 98, 120>>)}

InitGate ==
    /\ settings \in [Databases -> GateSettings]
    /\ itemsets_trie = [d \in Databases |-> ItemsetsTrie]
    /\ common_sense_rules = [d \in Databases |-> <<>>]
    /\ last_call = Call("new", 0, 0, NoLists, FALSE, {}, "")
    /\ inserted = [d \in Databases |-> EmptyBag]
    /\ log = [d \in Databases |-> <<>>]
    /\ calls = 0
    /\ result = NoResult

GateInsert(d, transaction) ==
    /\ OneMoreCall(MaxGatedCalls)
    /\ InsertTransactionCall(d, transaction)
    /\ UNCHANGED <<log, result>>

GateMerge(database1, database2) ==
    /\ database1 # database2
    /\ OneMoreCall(MaxGatedCalls)
    /\ MergeDatabasePairCall(database1, database2)
    /\ UNCHANGED <<log, result>>

NextGate ==
    \/ \E d \in Databases, t \in CleanTransactions : GateInsert(d, t)
    \/ \E d1, d2 \in Databases : GateMerge(d1, d2)

SpecGate == InitGate /\ [][NextGate]_vars

(***************************************************************************)
(* SpecCodec: the items of a database are compressed and decompressed with *)
(* the alphabet of its settings.                                           *)
(***************************************************************************)
\* the items callers compress: the strings of at most MaxItemLen characters among
\* "a", "x" and "B"
ItemStrings == StringsUpTo({97, 120, 66}, MaxItemLen)

\* the alphabets callers configure: "abx" (lower case), "Bax", the lower case letters
\* (without "B"), and none
LowerCaseLetters == [k \in 1..26 |-> 96 + k]

InitCodec ==
    InitWith({Settings({<<120>>}, TRUE, TRUE, None, <<97, 98, 120>>),
              Settings({<<120>>}, TRUE, FALSE, None, <<66, 97, 120>>),
              Settings({<<120>>}, TRUE, FALSE, None, LowerCaseLetters),
              Settings({<<120>>}, TRUE, FALSE, None, NoAlphabet)})

\* PrePostProcessor.compress_item(decompressed_item) of database d; the result keeps
\* the item that was compressed last before it, if there is one
CompressItem(d, decompressed_item) ==
    LET raises == CompressRaises(decompressed_item, settings[d].item_alphabet)
    IN /\ result' = [op |-> "compress_item", db |-> d, item |-> decompressed_item,
                     error |-> IF raises THEN "InvalidItemChar" ELSE "",
                     compressed |-> IF raises THEN <<>>
                                    ELSE CompressString(decompressed_item,
                                                        settings[d].item_alphabet),
                     before |-> IF result.op = "compress_item" /\ result.error = ""
                                THEN <<[item |-> result.item,
                                        compressed |-> result.compressed]>>
                                ELSE <<>>]
       /\ UNCHANGED <<settings, itemsets_trie, common_sense_rules, last_call, inserted,
                      log, calls>>

\* PrePostProcessor.decompress_item(compressed_item) of database d, for the item that
\* was compressed last
DecompressItem(d) ==
    /\ result.op = "compress_item"
    /\ result.error = ""
    /\ result' = [op |-> "decompress_item", db |-> d, item |-> result.item,
                  compressed |-> result.compressed,
                  decompressed |-> DecompressString(result.compressed,
                                                    settings[d].item_alphabet)]
    /\ UNCHANGED <<settings, itemsets_trie, common_sense_rules, last_call, inserted,
                   log, calls>>

NextCodec ==
    \/ \E d \in QueryDatabases, item \in ItemStrings : CompressItem(d, item)
    \/ \E d \in QueryDatabases : DecompressItem(d)

SpecCodec == InitCodec /\ [][NextCodec]_vars

(***************************************************************************)
(* Properties.                                                             *)
(***************************************************************************)
\* the items of a list at the positions of a set, in the order of the list
RECURSIVE SubList(_, _)
SubList(seq, positions) ==
    IF seq = <<>> THEN <<>>
    ELSE SubList(SubSeq(seq, 1, Len(seq) - 1), positions)
         \o (IF Len(seq) \in positions THEN <<seq[Len(seq)]>> ELSE <<>>)

\* no item occurs twice in the list
Distinct(seq) == \A i, j \in DOMAIN seq : seq[i] = seq[j] => i = j

\* the nodes sorted(S) ++ sorted(T) of a canonical transaction: S any subset of its
\* consequents, T any subset of its antecedents no longer than max_antecedents_length
PowersetNodes(s, consequents, antecedents) ==
    {CompressItemset(s, SubList(consequents, S) \o SubList(antecedents, T)) :
        S \in SUBSET DOMAIN consequents,
        T \in {T \in SUBSET DOMAIN antecedents :
                  s.max_antecedents_length \in {None, 0}
                  \/ Cardinality(T) <= s.max_antecedents_length}} \ {root_node}

\* the occurrences of a node, 0 for a node the trie does not have
OccurrencesOf(T, node) == IF node \in DOMAIN T.nodes THEN T.nodes[node].occurrences ELSE 0

\* the last call was an insertion that succeeded, of pairwise distinct items
InsertedDistinct(call) ==
    /\ call.op = "insert_transaction"
    /\ call.error = ""
    /\ Distinct(call.consequents \o call.antecedents)

\* C1: inserting a canonical transaction of pairwise distinct items adds 1 to the
\* occurrences of exactly the nodes sorted(S) ++ sorted(T), S a subset of its
\* consequents and T a subset of its antecedents with |T| <= max_antecedents_length
\* (any T when no maximum is set), S and T not both empty, creating the nodes that
\* are missing; no other node changes, appears or disappears, and
\* number_transactions grows by 1.
InsertIncrementsPowerset ==
    [][InsertedDistinct(last_call') =>
        LET d == last_call'.db
            before == itemsets_trie[d]
            after == itemsets_trie'[d]
            powerset == PowersetNodes(settings[d], last_call'.consequents,
                                      last_call'.antecedents)
        IN /\ DOMAIN after.nodes = DOMAIN before.nodes \cup powerset
           /\ \A node \in powerset :
                 after.nodes[node].occurrences = OccurrencesOf(before, node) + 1
           /\ \A node \in DOMAIN before.nodes \ powerset :
                 /\ after.nodes[node].occurrences = before.nodes[node].occurrences
                 /\ after.nodes[node].is_consequent = before.nodes[node].is_consequent
           /\ after.number_transactions = before.number_transactions + 1
           /\ \A other \in Databases \ {d} : itemsets_trie'[other] = itemsets_trie[other]]_vars

\* a transaction with a consequent and two antecedents went into a database whose
\* max_antecedents_length is 1 and that held some of its nodes already
InsertIncrementsPowersetWitness ==
    /\ InsertedDistinct(last_call)
    /\ Len(last_call.consequents) = 1
    /\ Len(last_call.antecedents) = 2
    /\ settings[last_call.db].max_antecedents_length = 1
    /\ \E node \in DOMAIN itemsets_trie[last_call.db].nodes :
          itemsets_trie[last_call.db].nodes[node].occurrences = 2
    /\ itemsets_trie[last_call.db].number_nodes = 6

\* the occurrences of all the nodes of a trie
Occurrences(T) == [node \in DOMAIN T.nodes |-> T.nodes[node].occurrences]

\* C2: removal is the exact inverse of insertion: to insert a transaction and then
\* remove it gives back number_transactions, the set of nodes and the occurrences
\* of every node as they were before the insertion.  Stated for the databases
\* without a maximum length of the antecedents and for the transactions that are
\* not empty.
RemovalInvertsInsertion ==
    \A d \in Databases, transaction \in CleanTransactions \ {<<>>} :
        LET before == itemsets_trie[d]
            put == DatabaseInsertTransaction(before, settings[d], transaction)
        IN settings[d].max_antecedents_length = None =>
           \A lists \in RemoveTransactionLists(settings[d], transaction) :
              LET taken == RemoveConsequentsAntecedentsCompressed(
                               put.trie, lists.consequents, lists.antecedents, FALSE)
              IN /\ taken.error = ""
                 /\ taken.trie.number_transactions = before.number_transactions
                 /\ Occurrences(taken.trie) = Occurrences(before)

\* C4: in every state that insertions, removals and merges reach and that holds a
\* transaction, the occurrences of every node are at least 0 and at most
\* number_transactions.
OccurrencesWithinTransactions ==
    \A d \in Databases :
        itemsets_trie[d].number_transactions >= 1 =>
            \A node \in DOMAIN itemsets_trie[d].nodes \ {root_node} :
                /\ itemsets_trie[d].nodes[node].occurrences >= 0
                /\ itemsets_trie[d].nodes[node].occurrences
                      <= itemsets_trie[d].number_transactions

\* C5: for every node with an antecedent, the node of its antecedents alone exists
\* and has at least the occurrences of the node: the confidence is defined and at
\* most 1.
ConfidenceDefined ==
    \A d \in Databases :
        \A node \in DOMAIN itemsets_trie[d].nodes :
            LET antecedents == AntecedentsCompressed(itemsets_trie[d], node)
                found == GetNodeFromCompressed(itemsets_trie[d], antecedents, FALSE, FALSE)
            IN antecedents # <<>> =>
                  /\ found.result = "node"
                  /\ itemsets_trie[d].nodes[node].occurrences
                        <= itemsets_trie[d].nodes[found.node].occurrences

\* C6: the children of every node are ordered: the consequents before the
\* antecedents, and each of the two blocks ascending by the case-folded
\* uncompressed item, whether case_insensitive is set or not.
SiblingsOrderedByCasefold ==
    \A d \in Databases :
        \A node \in DOMAIN itemsets_trie[d].nodes :
            LET children == itemsets_trie[d].nodes[node].children
                consequent(k) == itemsets_trie[d].nodes[Append(node, children[k])].is_consequent
                item(k) == DecompressString(children[k], settings[d].item_alphabet)
            IN \A k \in 1..(Len(children) - 1) :
                  /\ consequent(k + 1) => consequent(k)
                  /\ consequent(k) = consequent(k + 1) => ~CasefoldLess(item(k + 1), item(k))

\* a list without the repeats of its items
RECURSIVE WithoutDuplicates(_)
WithoutDuplicates(seq) ==
    IF seq = <<>> THEN <<>>
    ELSE LET front == WithoutDuplicates(SubSeq(seq, 1, Len(seq) - 1))
         IN IF seq[Len(seq)] \in Range(front) THEN front ELSE Append(front, seq[Len(seq)])

\* C7: insert_transaction collapses the duplicates of a transaction (an item
\* repeated, or given in variants of case and whitespace): the database is left as
\* by the insertion of the transaction without them.
InsertCollapsesDuplicates ==
    [][(last_call'.op = "insert_transaction" /\ last_call'.error = "") =>
        LET d == last_call'.db
        IN itemsets_trie'[d] =
              InsertConsequentsAntecedentsCompressed(
                  itemsets_trie[d], settings[d], WithoutDuplicates(last_call'.consequents),
                  WithoutDuplicates(last_call'.antecedents)).trie]_vars

\* C8: remove_transaction of a transaction that is not among those inserted and not
\* yet removed does not succeed (it raises, or returns at once when silent) and
\* leaves the database as it was.
RemovalOfAbsentFails ==
    [][(/\ last_call'.op = "remove_transaction"
        /\ ~BagIn(Range(last_call'.consequents \o last_call'.antecedents),
                  inserted[last_call'.db])) =>
        /\ last_call'.error # ""
        /\ itemsets_trie' = itemsets_trie]_vars

\* C3: to merge a database built by inserting the transactions Y into a database
\* of equal settings built by inserting the transactions X gives the database built
\* by inserting X and then Y: number_transactions is the sum, every node has the sum
\* of its occurrences, the nodes are those of either database, the children of every
\* node are in the same order and number_nodes is the same.
MergeEqualsInsertion ==
    (last_call.op = "merge_database_pair" /\ last_call.error = "") =>
        itemsets_trie[last_call.db] = Build(settings[last_call.db], log[last_call.db])

\* two databases that hold a transaction each were merged, a node of both adding up
\* and nodes of the source alone being created
MergeEqualsInsertionWitness ==
    /\ last_call.op = "merge_database_pair"
    /\ last_call.error = ""
    /\ log[last_call.other] # <<>>
    /\ Len(log[last_call.db]) > Len(log[last_call.other])
    /\ \E node \in DOMAIN itemsets_trie[last_call.db].nodes :
          /\ node \in DOMAIN itemsets_trie[last_call.other].nodes
          /\ itemsets_trie[last_call.db].nodes[node].occurrences
                > itemsets_trie[last_call.other].nodes[node].occurrences
          /\ itemsets_trie[last_call.other].nodes[node].occurrences > 0
    /\ \E node \in DOMAIN itemsets_trie[last_call.db].nodes :
          /\ node \in DOMAIN itemsets_trie[last_call.other].nodes
          /\ Len(itemsets_trie[last_call.db].nodes[node].children) >= 3
    /\ itemsets_trie[last_call.db].number_nodes
          > itemsets_trie[last_call.other].number_nodes

\* the last call put rules into the rules of a database
InsertedRules(call) ==
    /\ call.op \in {"insert_common_sense_rules", "merge_database_pair"}
    /\ call.error = ""

\* C9: after every insertion of common sense rules no kept rule has antecedents that
\* are a strict superset of those of another kept rule with the same consequents and
\* the same confidence.
NoSupersetRuleKept ==
    InsertedRules(last_call) =>
        LET kept == common_sense_rules[last_call.db]
        IN \A i, j \in DOMAIN kept :
              ~ /\ kept[i].consequents_normalized = kept[j].consequents_normalized
                /\ kept[i].confidence = kept[j].confidence
                /\ Range(kept[j].antecedents_normalized)
                      \subseteq Range(kept[i].antecedents_normalized)
                /\ Range(kept[j].antecedents_normalized)
                      # Range(kept[i].antecedents_normalized)

\* the antecedents and the consequents of a rule
RuleKey(rule) == <<rule.antecedents_normalized, rule.consequents_normalized>>

\* C10: after every insertion of common sense rules the kept rules ascend in the
\* lexicographic order of (antecedents, consequents, confidence), no two of them have
\* the same antecedents and consequents, and a kept rule has the highest confidence
\* of the rules of its antecedents and consequents that were kept before or given.
KeptRulesSortedHighest ==
    [][InsertedRules(last_call') =>
        LET kept == common_sense_rules'[last_call'.db]
            given == Range(common_sense_rules[last_call'.db]) \cup last_call'.rules
        IN /\ \A k \in 1..(Len(kept) - 1) : RuleLess(kept[k], kept[k + 1])
           /\ \A i, j \in DOMAIN kept : RuleKey(kept[i]) = RuleKey(kept[j]) => i = j
           /\ \A k \in DOMAIN kept : \A rule \in given :
                 RuleKey(rule) = RuleKey(kept[k]) => rule.confidence <= kept[k].confidence]_vars

\* rules were inserted into a database that kept rules already; three rules are kept
\* now, among them one of a higher confidence than a rule given for its key
KeptRulesSortedHighestWitness ==
    /\ last_call.op = "insert_common_sense_rules"
    /\ calls = 2
    /\ Len(common_sense_rules[last_call.db]) >= 3
    /\ \E rule \in last_call.rules : \E k \in DOMAIN common_sense_rules[last_call.db] :
          /\ RuleKey(rule) = RuleKey(common_sense_rules[last_call.db][k])
          /\ rule.confidence < common_sense_rules[last_call.db][k].confidence

\* the antecedents of a row of derive_rules_columns_dict: none for a row whose
\* antecedents_length is 0 (its antecedents column holds one empty string)
RowAntecedents(row) == IF row.antecedents_length = 0 THEN {} ELSE Range(row.antecedents)

\* C11: the result of derive_rules_columns_dict never holds two rules of the same
\* consequents such that the antecedents of the one are a strict subset of the
\* antecedents of the other and their confidences differ by at most
\* confidence_tolerance, whatever the parameters.
NoRedundantRuleDerived ==
    (result.op = "derive_rules_columns_dict" /\ result.error = "") =>
        \A i, j \in DOMAIN result.rows :
            ~ /\ result.rows[i].consequents = result.rows[j].consequents
              /\ RowAntecedents(result.rows[i]) \subseteq RowAntecedents(result.rows[j])
              /\ RowAntecedents(result.rows[i]) # RowAntecedents(result.rows[j])
              /\ RatioWithin(result.rows[i].confidence, result.rows[j].confidence,
                             result.params.confidence_tolerance)

\* C12: the result of derive_rules_columns_dict holds neither the common sense rules
\* nor the rules they make redundant: for every common sense rule the database keeps
\* and every row whose antecedents and consequents hold the antecedents and the
\* consequents of that rule, the confidence of the rule is neither 1 nor within
\* confidence_tolerance of the confidence of the row.
CommonSenseRulesNotDerived ==
    (result.op = "derive_rules_columns_dict" /\ result.error = "") =>
        \A k \in DOMAIN common_sense_rules[result.db], i \in DOMAIN result.rows :
            LET rule == common_sense_rules[result.db][k]
                row == result.rows[i]
            IN (Range(rule.antecedents_normalized) \cup Range(rule.consequents_normalized)
                   \subseteq RowAntecedents(row) \cup Range(row.consequents)) =>
                  /\ ~RatioEq(RuleConfidence(rule), Ratio(1, 1))
                  /\ ~RatioWithin(RuleConfidence(rule), row.confidence,
                                  result.params.confidence_tolerance)

\* the nodes of a trie whose path holds exactly the given items, once each
NodesOfItemset(T, s, items) ==
    {node \in DOMAIN T.nodes :
        /\ Len(node) = Cardinality(items)
        /\ {DecompressString(node[k], s.item_alphabet) : k \in DOMAIN node} = items}

\* the kept rules that hold the consequent and whose antecedents are the given ones
\* (a part of them, when unknown antecedents are skipped)
RulesMatching(rules, consequent, antecedents, skip_unknown_antecedents) ==
    {k \in DOMAIN rules :
        /\ consequent \in Range(rules[k].consequents_normalized)
        /\ IF skip_unknown_antecedents
           THEN Range(rules[k].antecedents_normalized) \subseteq antecedents
           ELSE Range(rules[k].antecedents_normalized) = antecedents}

\* C13: predict_consequents_list with skip_unknown_antecedents=False, asked with
\* antecedents A that are no consequents, returns for a consequent x that no common
\* sense rule matches: occurrences({x} + A) / occurrences(A) when A is not empty and
\* both itemsets are nodes of the trie, occurrences({x}) / number_transactions when A
\* is empty and {x} is a node of the trie, and None (unknown) when a node is missing.
\* The call leaves the database as it was.
PredictReadsTrie ==
    [][(result'.op = "predict_consequents_list" /\ result'.error = ""
        /\ ~result'.skip_unknown_antecedents) =>
        LET d == result'.db
            T == itemsets_trie[d]
            A == Range(result'.antecedents)
        IN /\ itemsets_trie' = itemsets_trie
           /\ common_sense_rules' = common_sense_rules
           /\ settings' = settings
           /\ \A i \in DOMAIN result'.rows :
                 LET row == result'.rows[i]
                     both == NodesOfItemset(T, settings[d], A \cup {row.consequent})
                     given == IF A = {} THEN {root_node}
                              ELSE NodesOfItemset(T, settings[d], A)
                 IN RulesMatching(common_sense_rules[d], row.consequent, A, FALSE) = {} =>
                       IF both # {} /\ given # {}
                       THEN /\ row.probability # NoRatio
                            /\ \E n1 \in both, n2 \in given :
                                  RatioEq(row.probability,
                                          Ratio(T.nodes[n1].occurrences,
                                                IF A = {} THEN T.number_transactions
                                                ELSE T.nodes[n2].occurrences))
                       ELSE row.probability = NoRatio]_vars

\* a database of three transactions, one of them with "x", was asked for the
\* probability of "x" given "a" and "b" and returned 1/2
PredictReadsTrieWitness ==
    /\ result.op = "predict_consequents_list"
    /\ result.error = ""
    /\ ~result.skip_unknown_antecedents
    /\ common_sense_rules[result.db] = <<>>
    /\ itemsets_trie[result.db].number_transactions = 3
    /\ Len(result.antecedents) = 2
    /\ <<<<120>>>> \in DOMAIN itemsets_trie[result.db].nodes
    /\ itemsets_trie[result.db].nodes[<<<<120>>>>].occurrences = 1
    /\ \E i \in DOMAIN result.rows :
          /\ result.rows[i].probability # NoRatio
          /\ RatioEq(result.rows[i].probability, Ratio(1, 2))

\* C14: in predict_consequents_list, whenever a kept common sense rule holds the
\* consequent x and its antecedents are the given antecedents
\* (skip_unknown_antecedents=False) or a part of them (skip_unknown_antecedents=True),
\* the probability returned for x is the confidence of such a rule; when no rule
\* matches, it is the value read from the trie.
CommonSenseShortCircuit ==
    (result.op = "predict_consequents_list" /\ result.error = "") =>
        LET d == result.db
            A == Range(result.antecedents)
        IN \A i \in DOMAIN result.rows :
              LET row == result.rows[i]
                  matching == RulesMatching(common_sense_rules[d], row.consequent, A,
                                            result.skip_unknown_antecedents)
              IN IF matching # {}
                 THEN \E k \in matching :
                         row.probability = RuleConfidence(common_sense_rules[d][k])
                 ELSE row.probability =
                         TrieProbability(
                             itemsets_trie[d],
                             CompressString(row.consequent, settings[d].item_alphabet),
                             CompressItemset(settings[d], result.antecedents),
                             result.skip_unknown_antecedents).value

\* the rule "b" => "x" of confidence 0.5 is kept and the database was asked for "x"
\* given "a" and "b", unknown antecedents skipped: it returned 0.5 where the trie
\* holds "x" with every "a", "b"
CommonSenseShortCircuitWitness ==
    /\ result.op = "predict_consequents_list"
    /\ result.error = ""
    /\ result.skip_unknown_antecedents
    /\ Len(result.antecedents) = 2
    /\ Len(common_sense_rules[result.db]) = 1
    /\ common_sense_rules[result.db][1].confidence = 50
    /\ <<<<120>>, <<97>>, <<98>>>> \in DOMAIN itemsets_trie[result.db].nodes
    /\ itemsets_trie[result.db].nodes[<<<<120>>, <<97>>, <<98>>>>].occurrences =
          itemsets_trie[result.db].nodes[<<<<97>>, <<98>>>>].occurrences
    /\ \E i \in DOMAIN result.rows :
          /\ result.rows[i].consequent = <<120>>
          /\ result.rows[i].probability = Ratio(50, 100)

\* C15: the codec round trip: for every configured alphabet and every item that
\* compress_string accepts (all its characters are in the alphabet), the item that
\* starts with the first character of the alphabet among them, to decompress the
\* compressed item gives the item back.
CodecRoundTrip ==
    result.op = "decompress_item" => result.decompressed = result.item

\* the item "aax", which starts with the first character of the alphabet of the lower
\* case letters, was compressed into two characters and decompressed
CodecRoundTripWitness ==
    /\ result.op = "decompress_item"
    /\ settings[result.db].item_alphabet = LowerCaseLetters
    /\ result.item = <<97, 97, 120>>
    /\ Len(result.compressed) = 2

MergeGatedBySettings ==
    last_call.op = "merge_database_pair" =>
        LET differ == \E field \in DOMAIN settings[last_call.db] :
                          settings[last_call.db][field] # settings[last_call.other][field]
        IN /\ differ => last_call.error = "SettingsMismatch"
           /\ ~differ => last_call.error = ""

\* a merge of two databases whose settings differ in omit_column_names only failed
MergeGatedBySettingsWitness ==
    /\ last_call.op = "merge_database_pair"
    /\ last_call.error = "SettingsMismatch"
    /\ settings[last_call.db].omit_column_names # settings[last_call.other].omit_column_names
    /\ SettingsEqOfTrieFields(settings[last_call.db], settings[last_call.other])
    /\ itemsets_trie[last_call.db].number_transactions = 1

\* the nodes other than the root that pass the filters of these parameters: the
\* length of the itemset, the occurrences and the support within their bounds, and
\* a consequent among the items where only consequent itemsets are asked for
PassingNodes(T, s, params) ==
    {node \in DOMAIN T.nodes \ {root_node} :
        /\ Len(node) >= params.min_itemset_length
        /\ params.max_itemset_length # None => Len(node) <= params.max_itemset_length
        /\ T.nodes[node].occurrences >= params.min_occurrences
        /\ params.max_occurrences # None => T.nodes[node].occurrences <= params.max_occurrences
        /\ T.nodes[node].occurrences * params.min_support.den
              >= params.min_support.num * T.number_transactions
        /\ T.nodes[node].occurrences * params.max_support.den
              <= params.max_support.num * T.number_transactions
        /\ params.filter_to_consequent_itemsets_only =>
              \E k \in DOMAIN node :
                  DecompressString(node[k], s.item_alphabet) \in NormalizedConsequents(s)}

\* C18: derive_frequent_itemsets returns exactly one row for every node other than
\* the root that passes the filters (with filter_to_consequent_itemsets_only the
\* passing nodes whose itemset holds a consequent), and no other row; the row reports
\* the items, the occurrences, occurrences / number_transactions and the number of
\* items of the node.
FrequentItemsetsAreTheFilteredNodes ==
    result.op = "derive_frequent_itemsets" =>
        LET T == itemsets_trie[result.db]
            s == settings[result.db]
            passing == PassingNodes(T, s, result.params)
        IN /\ result.error = ""
           /\ Len(result.rows) = Cardinality(passing)
           /\ \A node \in passing : \E k \in DOMAIN result.rows :
                  /\ result.rows[k].itemset = DecompressItemset(node, s.item_alphabet)
                  /\ result.rows[k].occurrences = T.nodes[node].occurrences
                  /\ RatioEq(result.rows[k].support,
                             Ratio(T.nodes[node].occurrences, T.number_transactions))
                  /\ result.rows[k].itemset_length = Len(node)

\* a database with three transactions was asked for its consequent itemsets of a
\* support of a half at least: there are rows, nodes without a consequent that pass
\* the other filters, and nodes with a consequent that do not pass them
FrequentItemsetsAreTheFilteredNodesWitness ==
    /\ result.op = "derive_frequent_itemsets"
    /\ result.params.filter_to_consequent_itemsets_only
    /\ result.params.min_support = Ratio(1, 2)
    /\ itemsets_trie[result.db].number_transactions = 3
    /\ Len(result.rows) >= 2
    /\ LET T == itemsets_trie[result.db]
           s == settings[result.db]
           unfiltered == [result.params EXCEPT !.filter_to_consequent_itemsets_only = FALSE]
           unbounded == [result.params EXCEPT !.min_support = Ratio(0, 1)]
       IN /\ Cardinality(PassingNodes(T, s, unfiltered)) > Len(result.rows)
          /\ Cardinality(PassingNodes(T, s, unbounded)) > Len(result.rows)

\* C19: every itemset has a single path in the trie, whether case_insensitive is set
\* or not: at most one node has a given set of items on its path.  The nodes looked
\* at are those whose path repeats no item, so that two nodes found here have the
\* same items in two orders.
SinglePathPerItemset ==
    \A d \in Databases :
        \A node, other \in DOMAIN itemsets_trie[d].nodes :
            (/\ Cardinality(Range(node)) = Len(node)
             /\ Cardinality(Range(other)) = Len(other)
             /\ Range(node) = Range(other)) => node = other

\* C20: normalisation is idempotent: for every item and every combination of
\* normalize_whitespace and case_insensitive, to normalise an item that was
\* normalised returns it unchanged, for the normalisation of insert_transaction and
\* for that of has_itemset, get_itemset and remove_transaction
\* (normalize_uncompressed_itemset).
NormalizationIdempotent ==
    (result # NoResult /\ result.op \in {"insert_transaction", "normalize_uncompressed_itemset"}
     /\ result.pass = 2) => result.normalized = result.item

\* insert_transaction has normalised the item "B<space><tab>a" into "b a" with both
\* flags set, and "b a" again
NormalizationIdempotentWitness ==
    /\ result # NoResult
    /\ result.op = "insert_transaction"
    /\ result.pass = 2
    /\ settings[result.db].normalize_whitespace
    /\ settings[result.db].case_insensitive
    /\ result.original = <<66, 32, 9, 97>>
    /\ result.item = <<98, 32, 97>>

\* C21: the descent gate of derive_rules is a pure pruning step: for every trie built
\* by insertions and every filter setting, derive_rules returns the same set of rules
\* (and fails in the same way) as the same walk that also goes below the nodes of
\* confidence 1.
DescentGateIsPruning ==
    (result.op = "derive_rules_columns_dict") =>
        LET d == result.db
            ungated == DeriveRulesWalk(itemsets_trie[d], settings[d], common_sense_rules[d],
                                       result.params, FALSE)
        IN /\ result.error = ungated.error
           /\ Range(result.rows) = Range(ungated.rows)

\* whether node comes before other in the pre-order that follows the order of the
\* siblings: an ancestor before its descendants, and otherwise as the children of
\* the last common ancestor are ordered
PreOrderBefore(T, node, other) ==
    \/ IsPrefix(node, other) /\ node # other
    \/ \E k \in 1..Len(node) :
          /\ k <= Len(other)
          /\ SubSeq(node, 1, k - 1) = SubSeq(other, 1, k - 1)
          /\ node[k] # other[k]
          /\ LET siblings == T.nodes[SubSeq(node, 1, k - 1)].children
                 At(item) == CHOOSE i \in DOMAIN siblings : siblings[i] = item
             IN At(node[k]) < At(other[k])

\* the nodes a walk with this visitor is to call the visitor with: the nodes other
\* than the root that have no ancestor the visitor returns skip_children for and
\* that no node the visitor returns stop for comes before
NodesToVisit(T, visitor) ==
    LET unskipped ==
            {node \in DOMAIN T.nodes \ {root_node} :
                \A k \in 1..(Len(node) - 1) :
                    VisitorReturns(T, SubSeq(node, 1, k), visitor) # "skip_children"}
    IN {node \in unskipped :
           \A other \in unskipped :
               VisitorReturns(T, other, visitor) = "stop" => ~PreOrderBefore(T, other, node)}

\* C22: visit_itemset_nodes_depth_first terminates on every trie; when it has returned
\* (only_with_consequents not set) it has called the visitor exactly once with every
\* node other than the root, in pre-order following the order of the siblings, but
\* with no descendant of a node the visitor returned skip_children for and with no
\* node after one it returned stop for.
VisitorWalk ==
    /\ [](result # NoResult /\ result.returned /\ ~result.only_with_consequents =>
            LET T == itemsets_trie[result.db]
                visited == result.visited
            IN /\ Range(visited) = NodesToVisit(T, result.visitor)
               /\ \A i, j \in DOMAIN visited :
                      i < j => PreOrderBefore(T, visited[i], visited[j]))
    /\ (result # NoResult ~> (result # NoResult /\ result.returned))

\* a walk has returned that left out the children of a node of "a" and went on with
\* the sibling of one of its ancestors
VisitorWalkWitness ==
    /\ result # NoResult
    /\ result.returned
    /\ result.visitor = "skip_a"
    /\ ~result.only_with_consequents
    /\ <<<<120>>, <<97>>, <<98>>>> \in DOMAIN itemsets_trie[result.db].nodes
    /\ \E i \in 1..(Len(result.visited) - 1) :
          /\ result.visited[i] = <<<<120>>, <<97>>>>
          /\ result.visited[i + 1] = <<<<120>>, <<98>>>>

\* the node reached after the first k items of a path when the items that are no
\* child of the node reached so far are left out
RECURSIVE ReachedSkipping(_, _, _)
ReachedSkipping(T, path, k) ==
    IF k = 0 THEN root_node
    ELSE LET before == ReachedSkipping(T, path, k - 1)
         IN IF Append(before, path[k]) \in DOMAIN T.nodes THEN Append(before, path[k])
            ELSE before

\* C23: get_node_from_compressed fails with EmptyItemset on an empty path; on another
\* path it returns the node of the path if every item is a child of the node before
\* it; if one is not, it fails with UnknownItemset by default, returns nothing with
\* none_if_not_exists (also when skip_unknown_items is set as well), and with
\* skip_unknown_items alone returns the node reached when the items that are no
\* child are left out.  The trie is unchanged in every case.
LookupOfMissingItems ==
    [][(result'.op = "get_node_from_compressed" /\ result' # result) =>
        LET T == itemsets_trie[result'.db]
            path == result'.compressed_itemset
        IN /\ itemsets_trie' = itemsets_trie
           /\ IF path = <<>> THEN result'.result = "EmptyItemset"
              ELSE IF path \in DOMAIN T.nodes
                   THEN result'.result = "node" /\ result'.node = path
              ELSE IF result'.none_if_not_exists THEN result'.result = "None"
              ELSE IF ~result'.skip_unknown_items THEN result'.result = "UnknownItemset"
              ELSE /\ result'.result = "node"
                   /\ result'.node = ReachedSkipping(T, path, Len(path))]_vars

\* the path x, b, a was looked up with skip_unknown_items alone in a trie that holds
\* the node x/a and no node x/b: the node x/a was returned
LookupOfMissingItemsWitness ==
    /\ result.op = "get_node_from_compressed"
    /\ result.skip_unknown_items
    /\ ~result.none_if_not_exists
    /\ settings[result.db].item_alphabet # NoAlphabet
    /\ Len(result.compressed_itemset) = 3
    /\ result.result = "node"
    /\ Len(result.node) = 2
    /\ result.node # SubSeq(result.compressed_itemset, 1, 2)
    /\ result.node[1] = result.compressed_itemset[1]
    /\ result.node[2] = result.compressed_itemset[3]

\* C24: a merge selects the larger trie as destination: merge_database_pair(d1, d2)
\* that succeeds merges into the database with the larger number_nodes, whichever
\* argument it is, and only reads the smaller one: the trie of the smaller database
\* is left as it was and the larger one has the transactions of both.
MergeIntoLargerTrie ==
    [][(last_call'.op = "merge_database_pair" /\ last_call'.error = "" /\ last_call' # last_call
        /\ itemsets_trie[last_call'.db].number_nodes
              # itemsets_trie[last_call'.other].number_nodes) =>
        LET d1 == last_call'.db
            d2 == last_call'.other
            larger == IF itemsets_trie[d1].number_nodes > itemsets_trie[d2].number_nodes
                      THEN d1 ELSE d2
            smaller == IF larger = d1 THEN d2 ELSE d1
        IN /\ itemsets_trie'[smaller] = itemsets_trie[smaller]
           /\ itemsets_trie'[larger].number_transactions =
                  itemsets_trie[d1].number_transactions + itemsets_trie[d2].number_transactions]_vars

\* the number of nodes found by following the children from node downwards, the
\* node itself included
RECURSIVE CountFrom(_, _)
CountFrom(T, node) ==
    LET children == T.nodes[node].children
        RECURSIVE Sum(_)
        Sum(k) == IF k > Len(children) THEN 0
                  ELSE CountFrom(T, Append(node, children[k])) + Sum(k + 1)
    IN 1 + Sum(1)

\* C25: after any sequence of insert_transaction, remove_transaction and merge,
\* number_nodes is 1 plus the number of non-root nodes reachable from the root.
NumberNodesCountsReachable ==
    \A d \in Databases :
        itemsets_trie[d].number_nodes = CountFrom(itemsets_trie[d], root_node)

(***************************************************************************)
(* SpecFind: a transaction is inserted and then looked up or removed by    *)
(* the same list of raw items.                                             *)
(***************************************************************************)
\* the transactions inserted: the lists of at most MaxFindLen raw items
FindTransactions == {t \in Transactions : Len(t) <= MaxFindLen}

FindInsert(d, transaction) ==
    /\ OneMoreCall(MaxFindCalls)
    /\ InsertTransactionCall(d, transaction)
    /\ result' = [op |-> "insert_transaction", db |-> d, transaction |-> transaction,
                  outcome |-> last_call'.error, occurrences |-> 0]
    /\ UNCHANGED log

\* Database.has_itemset(transaction) of database d, for the transaction just inserted
HasItemset(d) ==
    /\ result # NoResult
    /\ result.op = "insert_transaction"
    /\ \E lists \in RemoveTransactionLists(settings[d], result.transaction) :
          LET got == GetNodeFromCompressed(itemsets_trie[d],
                                           lists.consequents \o lists.antecedents, FALSE, TRUE)
          IN result' = [result EXCEPT
                           !.op = "has_itemset",
                           !.outcome = IF got.result = "node" THEN "True"
                                       ELSE IF got.result = "None" THEN "False"
                                       ELSE got.result]
    /\ UNCHANGED <<settings, itemsets_trie, common_sense_rules, last_call, inserted, log,
                   calls>>

\* Database.get_itemset(itemset) of database d with its defaults, for the transaction
\* just inserted: the row's occurrences or the error raised
GetItemset(d) ==
    /\ result # NoResult
    /\ result.op = "insert_transaction"
    /\ \E lists \in RemoveTransactionLists(settings[d], result.transaction) :
          LET trie_node == GetNodeFromCompressed(itemsets_trie[d],
                               lists.consequents \o lists.antecedents, FALSE, FALSE)
          IN result' = [result EXCEPT
                           !.op = "get_itemset",
                           !.outcome = IF trie_node.result = "node" THEN "row"
                                       ELSE trie_node.result,
                           !.occurrences =
                               IF trie_node.result = "node"
                               THEN itemsets_trie[d].nodes[trie_node.node].occurrences
                               ELSE 0]
    /\ UNCHANGED <<settings, itemsets_trie, common_sense_rules, last_call, inserted, log,
                   calls>>

\* Database.remove_transaction(transaction) of database d, for the transaction just
\* inserted
FindRemove(d) ==
    /\ result # NoResult
    /\ result.op = "insert_transaction"
    /\ OneMoreCall(MaxFindCalls)
    /\ RemoveTransactionCall(d, result.transaction, FALSE)
    /\ result' = [result EXCEPT !.op = "remove_transaction", !.outcome = last_call'.error]
    /\ UNCHANGED log

NextFind ==
    \/ \E d \in QueryDatabases, t \in FindTransactions : FindInsert(d, t)
    \/ \E d \in QueryDatabases : HasItemset(d)
    \/ \E d \in QueryDatabases : GetItemset(d)
    \/ \E d \in QueryDatabases : FindRemove(d)

SpecFind == Init /\ [][NextFind]_vars

\* the transaction of the last result has at least one item and, where
\* max_antecedents_length is set, no more antecedents than that
WithinAntecedentsLength ==
    LET s == settings[result.db]
        lists == InsertTransactionLists(s, result.transaction)
    IN /\ result.transaction # <<>>
       /\ s.max_antecedents_length = None
            \/ Len(lists.antecedents) <= s.max_antecedents_length

\* C26: an inserted transaction can be found again: for every settings value, with
\* or without an item alphabet, and every transaction within max_antecedents_length,
\* after insert_transaction(t) has_itemset(t) is true, get_itemset(t) returns a row
\* with occurrences >= 1 and remove_transaction(t) does not fail with
\* TransactionNotFound.
InsertedIsFoundAgain ==
    (result # NoResult /\ WithinAntecedentsLength) =>
        /\ result.op = "has_itemset" => result.outcome = "True"
        /\ result.op = "get_itemset" => result.outcome = "row" /\ result.occurrences >= 1
        /\ result.op = "remove_transaction" => result.outcome # "TransactionNotFound"

(***************************************************************************)
(* SpecOrder: two databases of equal settings are given common sense rules *)
(* one at a time or in batches; log[d] keeps the rules inserted into       *)
(* database d since its rules were last cleared, each once and sorted.     *)
(***************************************************************************)
\* the rules callers pass: antecedents "a" or "a", "b", consequent "x", confidence 0.5
\* or 1
OrderRules(s) ==
    {CommonSenseRule(s, antecedents, consequents, confidence) :
        antecedents \in UNION {NormalizedSorted(s, itemset) :
                                  itemset \in {{<<97>>}, {<<97>>, <<98>>}}},
        consequents \in NormalizedSorted(s, {<<120>>}),
        confidence \in {50, 100}}

\* insert_common_sense_rule (a batch of one rule) and insert_common_sense_rules with a
\* batch of at most MaxBatch rules, on database d
OrderInsertRules(d) ==
    /\ OneMoreCall(MaxOrderCalls)
    /\ \E batch \in UNION {[1..n -> OrderRules(settings[d])] : n \in 1..MaxBatch} :
          /\ InsertCommonSenseRulesCall(d, batch)
          /\ log' = [log EXCEPT ![d] = RuleSort(ListOfSet(Range(@ \o batch)))]
    /\ UNCHANGED result

\* clear_common_sense_rules on database d
OrderClearRules(d) ==
    /\ OneMoreCall(MaxOrderCalls)
    /\ ClearCommonSenseRulesCall(d)
    /\ log' = [log EXCEPT ![d] = <<>>]
    /\ UNCHANGED result

NextOrder ==
    \/ \E d \in Databases : OrderInsertRules(d)
    \/ \E d \in Databases : OrderClearRules(d)

SpecOrder == InitCS /\ [][NextOrder]_vars

\* C27: the kept common sense rules depend only on the set of rules inserted since
\* the last clear, not on the order of the calls nor on the batches: two databases
\* that were given the same rules since their last clear keep the same rules.
KeptRulesOrderFree ==
    \A d1, d2 \in Databases :
        Range(log[d1]) = Range(log[d2]) =>
            Range(common_sense_rules[d1]) = Range(common_sense_rules[d2])

(***************************************************************************)
(* SpecSeveral: three databases, each created with settings of its own,    *)
(* are filled and merged, two or all three at a time.                      *)
(***************************************************************************)
SeveralDatabases == {1, 2, 3}

\* the lists of databases callers pass to merge_databases: two or three different ones
DatabaseLists ==
    {list \in UNION {[1..n -> SeveralDatabases] : n \in 2..3} :
        \A j, k \in DOMAIN list : j # k => list[j] # list[k]}

\* sorted(databases, key=number_nodes): a stable sort
RECURSIVE SortedByNumberNodes(_, _)
SortedByNumberNodes(tries, databases) ==
    IF databases = <<>> THEN <<>>
    ELSE LET least == CHOOSE k \in DOMAIN databases :
                         \A j \in DOMAIN databases :
                             \/ tries[databases[k]].number_nodes < tries[databases[j]].number_nodes
                             \/ /\ tries[databases[k]].number_nodes
                                      = tries[databases[j]].number_nodes
                                /\ k <= j
             rest == [j \in 1..(Len(databases) - 1) |->
                         IF j < least THEN databases[j] ELSE databases[j + 1]]
         IN <<databases[least]>> \o SortedByNumberNodes(tries, rest)

\* Database.merge_database_pair(database1, database2) on the tries and the rule lists
\* of the databases: what they are after the call and the error raised
MergedPair(st, database1, database2) ==
    IF ~SettingsEq(settings[database1], settings[database2])
    THEN [st EXCEPT !.error = "SettingsMismatch"]
    ELSE LET both == <<database1, database2>>
             target == both[MergeTarget(st.itemsets_trie[database1],
                                        st.itemsets_trie[database2])]
             source == database2
             counted == [st.itemsets_trie[target] EXCEPT !.number_transactions =
                            @ + st.itemsets_trie[source].number_transactions]
         IN [itemsets_trie |->
                [st.itemsets_trie EXCEPT ![target] =
                    TrieMerge(counted, st.itemsets_trie[source],
                              settings[target].item_alphabet)],
             common_sense_rules |->
                [st.common_sense_rules EXCEPT ![target] =
                    InsertCommonSenseRulesList(@, st.common_sense_rules[source])],
             inserted |-> [st.inserted EXCEPT ![target] = @ (+) st.inserted[source]],
             error |-> ""]

\* the loop of Database.merge_databases: every database of the list is merged into
\* the largest one until a merge raises
RECURSIVE MergedInto(_, _, _)
MergedInto(st, largest_database, databases) ==
    IF databases = <<>> \/ st.error # "" THEN st
    ELSE TheOnly({MergedInto(now, largest_database, Tail(databases)) :
                    now \in {MergedPair(st, largest_database, Head(databases))}})

InitSeveral ==
    /\ settings \in [SeveralDatabases ->
                        {Settings({<<120>>}, TRUE, TRUE, None, NoAlphabet),
                         Settings({<<120>>}, TRUE, FALSE, None, NoAlphabet)}]
    /\ itemsets_trie = [d \in SeveralDatabases |-> ItemsetsTrie]
    /\ common_sense_rules = [d \in SeveralDatabases |-> <<>>]
    /\ last_call = Call("new", 0, 0, NoLists, FALSE, {}, "")
    /\ inserted = [d \in SeveralDatabases |-> EmptyBag]
    /\ log = [d \in SeveralDatabases |-> <<>>]
    /\ calls = 0
    /\ result = NoResult

SeveralInsert(d, transaction) ==
    /\ OneMoreCall(MaxSeveralCalls)
    /\ InsertTransactionCall(d, transaction)
    /\ UNCHANGED <<log, result>>

\* insert_common_sense_rule(["a"], ["x"], 1) on database d
SeveralInsertRule(d) ==
    /\ OneMoreCall(MaxSeveralCalls)
    /\ InsertCommonSenseRulesCall(d, <<CommonSenseRule(settings[d], <<<<97>>>>, <<<<120>>>>, 100)>>)
    /\ UNCHANGED <<log, result>>

SeveralMergePair(database1, database2) ==
    /\ database1 # database2
    /\ OneMoreCall(MaxSeveralCalls)
    /\ MergeDatabasePairCall(database1, database2)
    /\ UNCHANGED <<log, result>>

\* Database.merge_databases(database1, database2, *further_databases)
MergeDatabases(databases) ==
    /\ OneMoreCall(MaxSeveralCalls)
    /\ LET databases_to_merge == SortedByNumberNodes(itemsets_trie, databases)
           largest_database == databases_to_merge[Len(databases_to_merge)]
           done == MergedInto([itemsets_trie |-> itemsets_trie,
                               common_sense_rules |-> common_sense_rules,
                               inserted |-> inserted, error |-> ""],
                              largest_database,
                              SubSeq(databases_to_merge, 1, Len(databases_to_merge) - 1))
       IN /\ itemsets_trie' = done.itemsets_trie
          /\ common_sense_rules' = done.common_sense_rules
          /\ inserted' = done.inserted
          /\ last_call' = Call("merge_databases", largest_database, 0, NoLists, FALSE, {},
                               done.error)
    /\ UNCHANGED <<settings, log, result>>

NextSeveral ==
    \/ \E d \in SeveralDatabases, t \in {<<<<97>>>>, <<<<120>>, <<97>>>>} : SeveralInsert(d, t)
    \/ \E d \in SeveralDatabases : SeveralInsertRule(d)
    \/ \E d1, d2 \in SeveralDatabases : SeveralMergePair(d1, d2)
    \/ \E databases \in DatabaseLists : MergeDatabases(databases)

SpecSeveral == InitSeveral /\ [][NextSeveral]_vars

\* C28: a failed merge changes nothing: whenever merge_database_pair or
\* merge_databases, with any number of databases, fails with a settings mismatch, the
\* trie, number_transactions, number_nodes and common sense rules of every database
\* are the same as before the call.
FailedMergeChangesNothing ==
    [][(last_call' # last_call
        /\ last_call'.op \in {"merge_database_pair", "merge_databases"}
        /\ last_call'.error # "") =>
            /\ itemsets_trie' = itemsets_trie
            /\ common_sense_rules' = common_sense_rules]_vars

(***************************************************************************)
(* SpecCommute: a database that was filled, emptied or merged is given two *)
(* transactions by one call of insert_transactions, the last call made.    *)
(***************************************************************************)
\* the transactions inserted: the lists of at most MaxCommuteLen items among "x", "a"
\* and "B "
CommuteTransactions ==
    {t \in Transactions : Len(t) <= MaxCommuteLen /\ <<98>> \notin Range(t)}

\* the loop of Database.insert_transactions: the trie after the transactions inserted
\* so far and the error raised
RECURSIVE InsertedAll(_, _, _)
InsertedAll(T, s, transactions) ==
    IF transactions = <<>> THEN [trie |-> T, error |-> ""]
    ELSE TheOnly({IF done.error # "" THEN done
                  ELSE InsertedAll(done.trie, s, Tail(transactions)) :
                    done \in {DatabaseInsertTransaction(T, s, Head(transactions))}})

CommuteInsert(d, transaction) ==
    /\ result = NoResult
    /\ OneMoreCall(MaxCommuteCalls)
    /\ InsertTransactionCall(d, transaction)
    /\ result' = NoResult
    /\ UNCHANGED log

CommuteRemove(d, transaction) ==
    /\ result = NoResult
    /\ OneMoreCall(MaxCommuteCalls)
    /\ RemoveTransactionCall(d, transaction, TRUE)
    /\ result' = NoResult
    /\ UNCHANGED log

CommuteMerge(database1, database2) ==
    /\ result = NoResult
    /\ database1 # database2
    /\ OneMoreCall(MaxCommuteCalls)
    /\ MergeDatabasePairCall(database1, database2)
    /\ result' = NoResult
    /\ UNCHANGED log

\* Database.insert_transactions(transactions) on database d
InsertTransactions(d, transactions) ==
    /\ result = NoResult
    /\ OneMoreCall(MaxCommuteCalls)
    /\ LET done == InsertedAll(itemsets_trie[d], settings[d], transactions)
       IN /\ itemsets_trie' = [itemsets_trie EXCEPT ![d] = done.trie]
          /\ last_call' = Call("insert_transactions", d, 0, NoLists, FALSE, {}, done.error)
          /\ result' = [op |-> "insert_transactions", db |-> d, transactions |-> transactions]
    /\ UNCHANGED <<settings, common_sense_rules, inserted, log>>

NextCommute ==
    \/ \E d \in Databases, t \in CommuteTransactions : CommuteInsert(d, t)
    \/ \E d \in QueryDatabases, t \in CommuteTransactions : CommuteRemove(d, t)
    \/ \E d1, d2 \in Databases : CommuteMerge(d1, d2)
    \/ \E d \in QueryDatabases, t1, t2 \in CommuteTransactions :
          InsertTransactions(d, <<t1, t2>>)

SpecCommute == Init /\ [][NextCommute]_vars

\* C29: insertion is commutative: from any reachable state, inserting t1 then t2
\* gives the same trie as inserting t2 then t1: the same nodes, occurrences, order
\* of the siblings, number_nodes and number_transactions.
InsertionCommutes ==
    [][(calls' # calls /\ last_call'.op = "insert_transactions" /\ last_call'.error = "") =>
        LET d == result'.db
            t1 == result'.transactions[1]
            t2 == result'.transactions[2]
            swapped == InsertedAll(itemsets_trie[d], settings[d], <<t2, t1>>)
        IN swapped.error = "" /\ itemsets_trie'[d] = swapped.trie]_vars

\* two different transactions were inserted into a trie that held nodes already, and
\* the root has three children or more
InsertionCommutesWitness ==
    /\ result # NoResult
    /\ result.op = "insert_transactions"
    /\ last_call.error = ""
    /\ Range(result.transactions[1]) # Range(result.transactions[2])
    /\ result.transactions[1] # <<>>
    /\ result.transactions[2] # <<>>
    /\ itemsets_trie[result.db].number_transactions = 3
    /\ Len(itemsets_trie[result.db].nodes[root_node].children) >= 3

\* the items of a path at the given positions, in the order of the path
PathAt(node, positions) ==
    LET RECURSIVE Collect(_)
        Collect(k) ==
            IF k > Len(node) THEN <<>>
            ELSE (IF k \in positions THEN <<node[k]>> ELSE <<>>) \o Collect(k + 1)
    IN Collect(1)

\* C30: after any sequence of insert_transaction, remove_transaction and merge, the
\* trie is downward closed and its counts are anti-monotone: where a node exists for
\* an itemset, a node exists for every non-empty subset of it, with at least as many
\* occurrences, and every node has at least one occurrence.
TrieDownwardClosed ==
    \A d \in Databases :
        \A node \in DOMAIN itemsets_trie[d].nodes \ {root_node} :
            /\ itemsets_trie[d].nodes[node].occurrences >= 1
            /\ \A positions \in SUBSET (DOMAIN node) \ {{}} :
                  /\ PathAt(node, positions) \in DOMAIN itemsets_trie[d].nodes
                  /\ itemsets_trie[d].nodes[PathAt(node, positions)].occurrences
                        >= itemsets_trie[d].nodes[node].occurrences

====
